---- MODULE Spec2Model ----
(***************************************************************************)
(* Muhtar reverse-proxy gateway: rate-limit decision engine               *)
(* (internal/ratelimit), rate-limit middleware, and the proxy pipeline    *)
(* with the script engine and the header policy.                           *)
(*                                                                         *)
(* Time is counted in ticks.  Every call of time.Now() is a read of the    *)
(* clock; the reads of one handler form a non-decreasing sequence.  Two    *)
(* consecutive reads inside one tick are either equal or the second is     *)
(* later by less than a tick (`adv`).                                      *)
(* Paths are sequences of "/"-separated segments, header names are the     *)
(* canonical (case-insensitive) names, header values are strings.          *)
(***************************************************************************)
EXTENDS Integers, Sequences, FiniteSets, TLC

\* ------------------------------------------------------------------ bounds
MaxTime == 3          \* the clock runs from 0 to MaxTime
MaxJump == 1          \* ticks that may elapse inside one handler
TicksPerSec == 2      \* clock resolution: ticks per second

\* --------------------------------------------------------- small utilities
EmptyMap == [k \in {} |-> ""]

Max(a, b) == IF a >= b THEN a ELSE b

\* int64(d.Seconds()): conversion of a duration to whole seconds truncates
\* toward zero
TruncSeconds(d) == IF d >= 0 THEN d \div TicksPerSec ELSE -((-d) \div TicksPerSec)

\* t.Unix(): whole seconds since the epoch
Unix(t) == t \div TicksPerSec

RECURSIVE SumLen(_)
SumLen(segs) == IF segs = <<>> THEN 0 ELSE 1 + Len(Head(segs)) + SumLen(Tail(segs))

\* len(route.Path) of the string "/seg1/seg2/..."
PathLen(path) == SumLen(path)

\* ------------------------------------------------------------ rate-limit headers
HeaderRateLimit == "X-RateLimit-Limit"
HeaderRateRemaining == "X-RateLimit-Remaining"
HeaderRateReset == "X-RateLimit-Reset"
HeaderRetryAfter == "Retry-After"

\* --------------------------------------------------------------- configuration
\* RouteLimit records (config.RouteLimit); Window in ticks
RouteUsers == [Path |-> <<"api", "v1", "users">>, Method |-> "POST",
               Requests |-> 1, Window |-> 2, Burst |-> 1, Priority |-> 1]
RouteApi == [Path |-> <<"api", "v1", "*">>, Method |-> "*",
             Requests |-> 3, Window |-> 2, Burst |-> 0, Priority |-> 0]
RouteOrders == [Path |-> <<"api", "v1", "orders">>, Method |-> "*",
                Requests |-> 1, Window |-> 1, Burst |-> 0, Priority |-> 0]

\* per_ip.whitelist entries: exact addresses and CIDR blocks.  Addresses are
\* IPBits wide; a block with more prefix bits than that does not parse.
IPBits == 3
WhiteList == << [cidr |-> FALSE, ip |-> "1", base |-> 0, bits |-> 0],
                [cidr |-> TRUE, ip |-> "", base |-> 0, bits |-> 9],
                [cidr |-> TRUE, ip |-> "", base |-> 4, bits |-> 1] >>

MkConfig(routes, ipOn, ipReq, ipWin, ipBurst, gReq, gWin, gBurst, code, msg) ==
    [Enabled |-> TRUE,
     Global |-> [Requests |-> gReq, Window |-> gWin, Burst |-> gBurst],
     PerIP |-> [Enabled |-> ipOn, Requests |-> ipReq, Window |-> ipWin,
                Burst |-> ipBurst, WhiteList |-> WhiteList],
     Routes |-> routes,
     Response |-> [StatusCode |-> code, Message |-> msg]]

\* the configurations the limiter is started with
\* the shipped layout: specific route first, wildcard route last
ShippedConfig ==
    MkConfig(<<RouteUsers, RouteApi>>, TRUE, 2, 3, 0, 4, 3, 1, 429, "Too Many Requests")

Configs ==
    { ShippedConfig,
      \* the same routes in the other order, custom limited response
      MkConfig(<<RouteApi, RouteUsers>>, TRUE, 2, 3, 0, 2, 3, 0, 503, "Slow down"),
      \* per-IP tier disabled, a route of equal priority and longer pattern,
      \* global tier left unconfigured
      MkConfig(<<RouteApi, RouteOrders>>, FALSE, 0, 0, 0, 0, 0, 0, 429, "Too Many Requests"),
      \* no routes, the global tier tighter than the per-IP tier
      MkConfig(<<>>, TRUE, 3, 1, 0, 1, 2, 1, 429, "Too Many Requests"),
      \* no routes, per-IP tier disabled
      MkConfig(<<>>, FALSE, 0, 0, 0, 1, 1, 0, 429, "Too Many Requests") }

\* the requests the gateway receives: method, path, client address
Requests ==
    { [method |-> "POST", path |-> <<"api", "v1", "users">>, ip |-> "0"],
      [method |-> "GET", path |-> <<"api", "v1", "orders">>, ip |-> "5"],
      [method |-> "GET", path |-> <<"health">>, ip |-> "1"] }

VARIABLES
    cfg,        \* Service.config
    now,        \* the clock
    data,       \* MemoryStore.data: key -> window record
    mw,         \* the exchange the rate-limit middleware handled last
    admitted,   \* per key: the window last reported and the requests admitted in it
    px,         \* the exchange the proxy handler handled last
    logq,       \* Logs of logging tasks that have not run yet
    traces      \* trace ids issued

\* the memory store observed on its own, next to its sweeper
VARIABLES
    call,       \* the Get made last: its arguments, what it found and returned
                \* (seq alternates from one Get to the next)
    pending,    \* the checkLimit that has called Get and is about to call Increment
    lastSweep,  \* clock reading of the last sweep (of the creation, before the first)
    born,       \* per key of the map: clock reading at which the entry was inserted
    closed      \* MemoryStore.Close has been called

storeVars == <<call, pending, lastSweep, born, closed>>

\* the worker-pool LoggerService (internal/service)
VARIABLES
    requestChan,    \* LoggerService.requestChan: the buffered records, oldest first
    responseChan,   \* LoggerService.responseChan
    batch,          \* per worker: its local batch
    saves,          \* per record: the SaveLogs calls it was passed in (counted to 2)
    senders,        \* callers of LogRequest / LogResponse waiting in the channel send
    nrec,           \* calls of LogRequest / LogResponse made
    sd,             \* how far Shutdown has come
    exited,         \* workers that have returned
    crashed         \* a goroutine panicked: the process is gone

sinkVars == <<requestChan, responseChan, batch, saves, senders, nrec, sd, exited, crashed>>

\* the process around the handler: main's teardown, the metrics collector,
\* the handler invocations in flight
VARIABLES
    teardown,       \* how far main's teardown has come
    activeRequests, \* MetricsCollector.ActiveRequests, the gauge
    inflight,       \* invocations of Handle that have started and not returned
    errorsTotal,    \* MetricsCollector.ErrorCounter, summed over its labels
    saveErrors      \* calls of Repository.SaveLog that returned an error

lifeVars == <<teardown, activeRequests, inflight, errorsTotal, saveErrors>>

\* callers of checkLimit that run side by side
VARIABLES
    callers         \* per caller: where it is in checkLimit and what Get gave it

auxVars == <<storeVars, sinkVars, lifeVars, callers>>

coreVars == <<cfg, now, data, mw, admitted, px, logq, traces>>

vars == <<cfg, now, data, mw, admitted, px, logq, traces, auxVars>>

\* ------------------------------------------------------------ MemoryStore
\* a Get that takes a window to be over at its reset time
MemGet_inclusive(d, key, t) ==
    IF key \in DOMAIN d
    THEN IF t >= d[key].resetTime
         THEN [count |-> 0, resetTime |-> t, clock |-> TRUE]
         ELSE [count |-> d[key].count, resetTime |-> d[key].resetTime, clock |-> FALSE]
    ELSE [count |-> 0, resetTime |-> t, clock |-> TRUE]

\* MemoryStore.Get at clock reading t; clock: the returned time is time.Now()
MemGet(d, key, t) ==
    IF key \in DOMAIN d
    THEN IF t > d[key].resetTime
         THEN [count |-> 0, resetTime |-> t, clock |-> TRUE]
         ELSE [count |-> d[key].count, resetTime |-> d[key].resetTime, clock |-> FALSE]
    ELSE [count |-> 0, resetTime |-> t, clock |-> TRUE]

\* an Increment that restarts the count of an expired window but keeps its
\* reset time
MemIncrement_keepsResetTime(d, key, resetTime, t) ==
    IF key \in DOMAIN d
    THEN IF t > d[key].resetTime
         THEN [data |-> [d EXCEPT ![key].count = 1], count |-> 1]
         ELSE [data |-> [d EXCEPT ![key].count = @ + 1],
               count |-> d[key].count + 1]
    ELSE [data |-> d @@ (key :> [count |-> 1, resetTime |-> resetTime]),
          count |-> 1]

\* an Increment that counts an unexpired window twice
MemIncrement_twice(d, key, resetTime, t) ==
    IF key \in DOMAIN d /\ t <= d[key].resetTime
    THEN [data |-> [d EXCEPT ![key].count = @ + 2], count |-> d[key].count + 2]
    ELSE [data |-> (key :> [count |-> 1, resetTime |-> resetTime]) @@ d, count |-> 1]

\* MemoryStore.Increment at clock reading t: the new map and the returned count
MemIncrement(d, key, resetTime, t) ==
    IF key \in DOMAIN d
    THEN IF t > d[key].resetTime
         THEN [data |-> [d EXCEPT ![key] = [count |-> 1, resetTime |-> resetTime]],
               count |-> 1]
         ELSE [data |-> [d EXCEPT ![key].count = @ + 1],
               count |-> d[key].count + 1]
    ELSE [data |-> d @@ (key :> [count |-> 1, resetTime |-> resetTime]),
          count |-> 1]

\* ------------------------------------------------------------------- keys
\* Key.String: the non-empty parts joined by ":" (a sequence of parts)
KeyString(k) ==
    <<k.Method, k.Path>> \o (IF k.IP # "" THEN <<k.IP>> ELSE <<>>)

\* Key.withSuffix
withSuffix(k, suffix) == KeyString(k) \o <<suffix>>

\* Service.buildKey
buildKey(req) == [IP |-> req.ip, Path |-> req.path, Method |-> req.method]

\* -------------------------------------------------------------- whitelist
\* net.ParseIP: the address a text denotes, -1 (nil) when it denotes none
ParseIP(s) ==
    IF \E i \in 0..(2^IPBits - 1) : ToString(i) = s
    THEN CHOOSE i \in 0..(2^IPBits - 1) : ToString(i) = s
    ELSE -1

\* a block test that compares the address with the block's base address
CIDRContains_baseOnly(entry, ip) ==
    /\ entry.bits <= IPBits
    /\ ParseIP(ip) # -1
    /\ ParseIP(ip) = entry.base

\* net.ParseCIDR succeeds and ipNet.Contains(ParseIP(ip))
CIDRContains(entry, ip) ==
    /\ entry.bits <= IPBits
    /\ ParseIP(ip) # -1
    /\ ParseIP(ip) \div 2^(IPBits - entry.bits) = entry.base \div 2^(IPBits - entry.bits)

\* Service.isWhitelisted
isWhitelisted(c, ip) ==
    \E i \in 1..Len(c.PerIP.WhiteList) :
        LET entry == c.PerIP.WhiteList[i] IN
        IF entry.cidr THEN CIDRContains(entry, ip) ELSE ip = entry.ip

\* ---------------------------------------------------------- route selection
\* the segments that hold the character "*"
StarSegments == {"*", "v*"}

\* strings.Contains(pattern, "*") on a path given by its segments
Contains(pattern, star) ==
    \E i \in 1..Len(pattern) : pattern[i] = star \/ pattern[i] \in StarSegments

\* a match that compares the segments the two paths have in common
pathMatch_noLength(pattern, path) ==
    IF pattern = path THEN TRUE
    ELSE IF ~Contains(pattern, "*") THEN FALSE
    ELSE \A i \in 1..Len(pattern) :
            i <= Len(path) => (pattern[i] = "*" \/ pattern[i] = path[i])

\* Service.pathMatch
pathMatch(pattern, path) ==
    IF pattern = path THEN TRUE
    ELSE IF ~Contains(pattern, "*") THEN FALSE
    ELSE IF Len(pattern) # Len(path) THEN FALSE
    ELSE \A i \in 1..Len(pattern) : pattern[i] = "*" \/ pattern[i] = path[i]

\* the loop of Service.findRouteLimit from route i on; st holds whether
\* bestMatch is set, bestPriority and bestPattern
RECURSIVE routeLoop(_, _, _, _, _)
routeLoop(routes, i, method, path, st) ==
    IF i > Len(routes) THEN st
    ELSE LET route == routes[i] IN
         IF route.Method # "*" /\ route.Method # method
         THEN routeLoop(routes, i + 1, method, path, st)
         ELSE IF ~pathMatch(route.Path, path)
         THEN routeLoop(routes, i + 1, method, path, st)
         ELSE IF ~st.set \/ route.Priority > st.bestPriority
         THEN routeLoop(routes, i + 1, method, path,
                        [set |-> TRUE, bestPriority |-> route.Priority,
                         bestPattern |-> route.Path])
         ELSE IF route.Priority = st.bestPriority
                 /\ PathLen(route.Path) > PathLen(st.bestPattern)
         THEN routeLoop(routes, i + 1, method, path,
                        [st EXCEPT !.bestPattern = route.Path])
         ELSE routeLoop(routes, i + 1, method, path, st)

\* Service.findRouteLimit: <<>> for nil, else <<the RouteLimit bestMatch points
\* to>>.  bestMatch is assigned &route, the address of the range variable; the
\* build (Go 1.19) has one range variable for the whole loop, so after the loop
\* a non-nil bestMatch points to the value of the last iteration.
findRouteLimit(c, method, path) ==
    LET st == routeLoop(c.Routes, 1, method, path,
                        [set |-> FALSE, bestPriority |-> 0, bestPattern |-> <<>>])
    IN IF st.set THEN <<c.Routes[Len(c.Routes)]>> ELSE <<>>

\* ------------------------------------------------------------- checkLimit
\* LimitHeaders of a limited result
LimitedHeaders(limit, resetTime, retryAfter) ==
    (HeaderRateLimit :> ToString(limit))
    @@ (HeaderRateRemaining :> "0")
    @@ (HeaderRateReset :> ToString(Unix(resetTime)))
    @@ (HeaderRetryAfter :> ToString(TruncSeconds(retryAfter)))

\* admitted headers without the remaining count
AdmittedHeaders_noRemaining(limit, remaining, resetTime) ==
    (HeaderRateLimit :> ToString(limit))
    @@ (HeaderRateReset :> ToString(Unix(resetTime)))

\* LimitHeaders of an admitted result
AdmittedHeaders(limit, remaining, resetTime) ==
    (HeaderRateLimit :> ToString(limit))
    @@ (HeaderRateRemaining :> ToString(remaining))
    @@ (HeaderRateReset :> ToString(Unix(resetTime)))

\* a limit test that admits one request too many
overLimit_offByOne(count, limit, burst) == count > limit + burst

\* `count >= limit+burst`: the window is used up
overLimit(count, limit, burst) == count >= limit + burst

\* a nil *Result
NilResult == <<>>

\* the error a Store call returns when the store cannot be reached
ErrStore == "store: connection refused"

\* Service.checkLimit with the clock readings tg (store.Get), tc (the window
\* test and the new reset time) and te (retry-after, or store.Increment);
\* adv: the reading of the window test is later than the reading Get made
\* just before it.  expired records that the key had a window whose reset
\* time had passed, count the count that is compared with limit + burst.
\* f names the store call of this check that returns an
\* error ("Get", "Increment", "" for none; the memory store returns none); a
\* call that returns an error leaves the store as it is.
checkLimit(d, key, limit, window, burst, tg, tc, te, adv, f) ==
    IF f = "Get"
    THEN [data |-> d, expired |-> FALSE, count |-> 0, calls |-> << <<"Get", key>> >>,
          result |-> NilResult, err |-> ErrStore]
    ELSE
    LET got == MemGet(d, key, tg)
        fresh == tc > got.resetTime \/ (got.clock /\ adv)
        resetTime == IF fresh THEN tc + window ELSE got.resetTime
        count == IF fresh THEN 0 ELSE got.count
    IN IF overLimit(count, limit, burst)
       THEN LET retryAfter == resetTime - te IN
            [data |-> d, expired |-> key \in DOMAIN d /\ tg > d[key].resetTime,
             count |-> count,
             calls |-> << <<"Get", key>> >>,
             result |-> [Limited |-> TRUE, Remaining |-> 0, ResetTime |-> resetTime,
                         RetryAfter |-> retryAfter,
                         LimitHeaders |-> LimitedHeaders(limit, resetTime, retryAfter)],
             err |-> ""]
       ELSE IF f = "Increment"
       THEN [data |-> d, expired |-> key \in DOMAIN d /\ tg > d[key].resetTime,
             count |-> count,
             calls |-> << <<"Get", key>>, <<"Increment", key>> >>,
             result |-> NilResult, err |-> ErrStore]
       ELSE LET inc == MemIncrement(d, key, resetTime, te)
                remaining == Max(0, limit + burst - inc.count)
            IN [data |-> inc.data, expired |-> key \in DOMAIN d /\ tg > d[key].resetTime,
                count |-> count,
                calls |-> << <<"Get", key>>, <<"Increment", key>> >>,
                result |-> [Limited |-> FALSE, Remaining |-> remaining,
                            ResetTime |-> resetTime, RetryAfter |-> 0,
                            LimitHeaders |-> AdmittedHeaders(limit, remaining, resetTime)],
                err |-> ""]

\* &Result{Limited: false}
ResultNotLimited ==
    [Limited |-> FALSE, Remaining |-> 0, ResetTime |-> 0, RetryAfter |-> 0,
     LimitHeaders |-> EmptyMap]

\* one tier of Service.Allow: the check and its record in the evaluation list
Tier(name, d, key, limit, window, burst, tg, tc, te, adv, f) ==
    LET r == checkLimit(d, key, limit, window, burst, tg, tc, te, adv, f) IN
    [data |-> r.data, calls |-> r.calls, result |-> r.result, err |-> r.err,
     eval |-> [tier |-> name, key |-> key, limit |-> limit, window |-> window,
               burst |-> burst, expired |-> r.expired, count |-> r.count,
               result |-> r.result,
               err |-> r.err]]

\* a tier that Allow does not evaluate
NoTier(d) ==
    [data |-> d, calls |-> <<>>, result |-> ResultNotLimited, err |-> "", eval |-> <<>>]

\* the store call that fails during one Allow: none
NoFail == [tier |-> "", op |-> ""]

\* the store call of the tier `name` that fails, "" for none
FailOf(f, name) == IF f.tier = name THEN f.op ELSE ""

\* ------------------------------------------------------------------ Allow
NumReads == 9       \* clock readings of one Allow: three per tier

\* an evaluation that goes on to the next tier after a limited result
tierReturns_never(result, err) == FALSE

\* an evaluation that goes on to the next tier after a store error
tierReturns_ignoreErr(result, err) == err = "" /\ result.Limited

\* `if err != nil || result.Limited { return result, err }` after a tier
tierReturns(result, err) == err # "" \/ result.Limited

\* Service.Allow with the clock readings ts (adv as in checkLimit) and the
\* failing store call f: the store after the call, the returned result and
\* error, the store calls made and the tiers evaluated, in order
Allow(d, c, req, ts, adv, f) ==
    IF ~c.Enabled
    THEN [data |-> d, result |-> ResultNotLimited, err |-> "", calls |-> <<>>,
          evals |-> <<>>]
    ELSE IF c.PerIP.Enabled /\ isWhitelisted(c, req.ip)
    THEN [data |-> d, result |-> ResultNotLimited, err |-> "", calls |-> <<>>,
          evals |-> <<>>]
    ELSE
    LET key == buildKey(req)
        routeLimit == findRouteLimit(c, req.method, req.path)
        t1 == IF routeLimit # <<>>
              THEN Tier("route", d, withSuffix(key, "route"), routeLimit[1].Requests,
                        routeLimit[1].Window, routeLimit[1].Burst, ts[1], ts[2], ts[3], adv,
                        FailOf(f, "route"))
              ELSE NoTier(d)
        e1 == IF routeLimit # <<>> THEN <<t1.eval>> ELSE <<>>
    IN IF routeLimit # <<>> /\ tierReturns(t1.result, t1.err)
       THEN [data |-> t1.data, result |-> t1.result, err |-> t1.err,
             calls |-> t1.calls, evals |-> e1]
       ELSE
       LET t2 == IF c.PerIP.Enabled
                 THEN Tier("ip", t1.data, withSuffix(key, "ip"), c.PerIP.Requests,
                           c.PerIP.Window, c.PerIP.Burst, ts[4], ts[5], ts[6], adv,
                           FailOf(f, "ip"))
                 ELSE NoTier(t1.data)
           e2 == IF c.PerIP.Enabled THEN e1 \o <<t2.eval>> ELSE e1
       IN IF c.PerIP.Enabled /\ tierReturns(t2.result, t2.err)
          THEN [data |-> t2.data, result |-> t2.result, err |-> t2.err,
                calls |-> t1.calls \o t2.calls, evals |-> e2]
          ELSE
          LET t3 == Tier("global", t2.data, withSuffix(key, "global"),
                         c.Global.Requests, c.Global.Window, c.Global.Burst,
                         ts[7], ts[8], ts[9], adv, FailOf(f, "global"))
          IN [data |-> t3.data, result |-> t3.result,
              err |-> t3.err,
              calls |-> t1.calls \o t2.calls \o t3.calls,
              evals |-> e2 \o <<t3.eval>>]

\* ------------------------------------------- state of the proxy handler
\* What running a script does to its envelope: it fails, or it assigns the
\* headers `set` and leaves the body (body = <<>>) or replaces it.
NoScript == [fail |-> FALSE, set |-> EmptyMap, body |-> <<>>]

\* an upstream that cannot be reached
Unreachable == [fail |-> TRUE, status |-> 0, headers |-> EmptyMap, body |-> ""]

NoProxied ==
    [handled |-> FALSE, next |-> FALSE, trace |-> 0,
     req |-> [method |-> "", path |-> "", query |-> "", body |-> "", headers |-> EmptyMap],
     rs |-> NoScript, up |-> Unreachable, ps |-> NoScript,
     sent |-> <<>>, status |-> 0, body |-> "", headers |-> EmptyMap, err |-> "",
     logs |-> {}, attempts |-> 0, metrics |-> <<>>]


\* ------------------------------------------------------------- middleware
StatusTooManyRequests == 429

\* the reads after which the clock is seen to have moved on within a handler:
\* inside the first tier, between the tiers, or not at all
JumpAt == {1, 2, 3, 6, NumReads}

\* the clock readings of one handler: the first j read `now`, the rest now + dt
TimeReads(j, dt) == [i \in 1..NumReads |-> IF i <= j THEN now ELSE now + dt]

\* admitted results (Limited = false) of the evaluated tiers, counted per key
\* for the window the result reports (its ResetTime); cap is the tier's
\* limit + burst
RECURSIVE CountAdmitted(_, _)
CountAdmitted(adm, evals) ==
    IF evals = <<>> THEN adm
    ELSE LET e == Head(evals)
             fresh == [reset |-> e.result.ResetTime, n |-> 1, cap |-> e.limit + e.burst]
             next == IF e.err # "" THEN adm
                     ELSE IF e.result.Limited THEN adm
                     ELSE IF e.key \in DOMAIN adm
                     THEN IF adm[e.key].reset = e.result.ResetTime
                          THEN [adm EXCEPT ![e.key].n = @ + 1]
                          ELSE [adm EXCEPT ![e.key] = fresh]
                     ELSE adm @@ (e.key :> fresh)
         IN CountAdmitted(next, Tail(evals))

NoExchange ==
    [handled |-> FALSE, req |-> [method |-> "", path |-> <<>>, ip |-> ""],
     result |-> ResultNotLimited, calls |-> <<>>, evals |-> <<>>,
     err |-> "", status |-> 0, body |-> "", headers |-> EmptyMap,
     nextCalled |-> FALSE]

\* response headers the next handler copies from the upstream with c.Set
NextHeaders == { EmptyMap, (HeaderRateLimit :> "100") }

\* ratelimit.Middleware for one request.  When Allow returns an error the
\* middleware returns it and the framework's error handler answers 500 with
\* the error text.  A limited request is answered by the error handler from
\* fiber.NewError(429, "rate limit exceeded"); an admitted one is passed to
\* the next handler (status 0: the next handler writes status and body),
\* which sets the headers up on the response.
Middleware(req, j, dt, adv, up, f) ==
    /\ now + dt <= MaxTime
    /\ (dt = 0) <=> (j = NumReads)
    /\ \E a \in {Allow(data, cfg, req, TimeReads(j, dt), adv, f)} :
       /\ data' = a.data
       /\ admitted' = CountAdmitted(admitted, a.evals)
       /\ IF a.err # ""
          THEN /\ up = EmptyMap
               /\ mw' = [handled |-> TRUE, req |-> req, result |-> a.result,
                         calls |-> a.calls, evals |-> a.evals, err |-> a.err,
                         status |-> 500, body |-> a.err, headers |-> EmptyMap,
                         nextCalled |-> FALSE]
          ELSE /\ a.result.Limited => up = EmptyMap
               /\ mw' = [handled |-> TRUE, req |-> req, result |-> a.result,
                         calls |-> a.calls, evals |-> a.evals, err |-> "",
                         status |-> IF a.result.Limited THEN StatusTooManyRequests ELSE 0,
                         body |-> IF a.result.Limited THEN "rate limit exceeded" ELSE "",
                         headers |-> IF a.result.Limited THEN a.result.LimitHeaders
                                     ELSE up @@ a.result.LimitHeaders,
                         nextCalled |-> ~a.result.Limited]
    /\ now' = now + dt
    /\ UNCHANGED <<cfg, px, logq, traces, auxVars>>

\* time passes between requests
Tick ==
    /\ now < MaxTime
    /\ now' = now + 1
    /\ UNCHANGED <<cfg, data, mw, admitted, px, logq, traces, auxVars>>

\* the memory store observed on its own: before any call
NoCall ==
    [op |-> "", seq |-> 0, key |-> "", t |-> 0, had |-> FALSE,
     before |-> [count |-> 0, resetTime |-> 0], count |-> 0, resetTime |-> 0]

InitStore ==
    /\ call = NoCall
    /\ pending = <<>>
    /\ lastSweep = 0
    /\ born = [k \in {} |-> 0]
    /\ closed = FALSE

\* the process serves, no handler runs, no metric has been updated
InitLife ==
    /\ teardown = "serving"
    /\ activeRequests = 0
    /\ inflight = {}
    /\ errorsTotal = 0
    /\ saveErrors = 0

\* ----------------------------------------------- LoggerService: parameters
MaxRecords == 3     \* calls of LogRequest / LogResponse in one run
BatchSize == 2      \* records at which a worker flushes its batch (100 in the code)

\* workerCount and bufferSize of NewLoggerService
WorkerCount == 2
BufferSize == 2

\* the workers startWorkers starts: workerCount per direction
Workers == {"request", "response"} \X (1..WorkerCount)

\* NewLoggerService: empty channels, workers started with empty batches
InitSink ==
    /\ requestChan = <<>>
    /\ responseChan = <<>>
    /\ batch = [w \in Workers |-> <<>>]
    /\ saves = [r \in 1..MaxRecords |-> 0]
    /\ senders = {}
    /\ nrec = 0
    /\ sd = "running"
    /\ exited = {}
    /\ crashed = FALSE

Init ==
    /\ cfg \in Configs
    /\ now = 0
    /\ data = [k \in {} |-> [count |-> 0, resetTime |-> 0]]
    /\ mw = NoExchange
    /\ admitted = [k \in {} |-> [reset |-> 0, n |-> 0, cap |-> 0]]
    /\ px = NoProxied
    /\ logq = {}
    /\ traces = 0
    /\ InitStore
    /\ InitSink
    /\ InitLife
    /\ callers = <<>>

Next ==
    \/ \E req \in Requests, j \in JumpAt, dt \in 0..MaxJump, adv \in BOOLEAN,
          up \in NextHeaders : Middleware(req, j, dt, adv, up, NoFail)
    \/ Tick

Spec == Init /\ [][Next]_vars

\* ----------------------------------------------------------------------
\* The limiter on a store whose calls can fail (the Redis store): any one
\* store call of a request may return an error
\* ----------------------------------------------------------------------
StoreFails ==
    {NoFail} \cup [tier : {"route", "ip", "global"}, op : {"Get", "Increment"}]

InitFailing ==
    /\ Init
    /\ cfg.PerIP.Enabled /\ cfg.Routes # <<>>

NextFailing ==
    \/ \E req \in Requests, up \in NextHeaders, f \in StoreFails :
          Middleware(req, NumReads, 0, FALSE, up, f)
    \/ Tick

SpecFailingStore == InitFailing /\ [][NextFailing]_vars

\* ======================================================================
\* The memory store on its own: Get, Increment, Reset and Close called while
\* the sweeper (MemoryStore.cleanup) runs on its ticker.  Every method holds
\* the store's lock for its whole body, so each is one step; a checkLimit is
\* two steps, Get and Increment, and other steps may come between them.
\* ======================================================================
MaxCount == 2       \* a window's count is incremented up to this value

\* cleanupInterval of NewMemoryStore, in ticks
SweepInterval == 2

StoreKeys == {"a", "b"}

\* window lengths of the checks that use the store, in ticks
StoreWindows == {1, 2}

\* the entry of a key, the zero window for a key the map does not hold
EntryOf(d, key) == IF key \in DOMAIN d THEN d[key] ELSE [count |-> 0, resetTime |-> 0]

\* a sweep that tests `w.resetTime.After(now)`
Sweep_inverted(d, t) == [k \in {k \in DOMAIN d : ~(d[k].resetTime > t)} |-> d[k]]

\* one pass of MemoryStore.cleanup at clock reading t: the entries that stay
Sweep(d, t) == [k \in {k \in DOMAIN d : ~(t > d[k].resetTime)} |-> d[k]]

\* MemoryStore.Get called by a checkLimit for a window of length `window`,
\* which then (inc) goes on to Increment or (limit reached) does not; adv as
\* in checkLimit
StoreGet(key, window, adv, inc) ==
    /\ pending = <<>>
    /\ \E got \in {MemGet(data, key, now)} :
       LET fresh == now > got.resetTime \/ (got.clock /\ adv)
           resetTime == IF fresh THEN now + window ELSE got.resetTime
       IN /\ call' = [op |-> "Get", seq |-> 1 - call.seq, key |-> key, t |-> now,
                      had |-> key \in DOMAIN data,
                      before |-> EntryOf(data, key),
                      count |-> got.count, resetTime |-> got.resetTime]
          /\ pending' = IF inc THEN <<[key |-> key, resetTime |-> resetTime]>> ELSE <<>>
    /\ UNCHANGED <<data, born, lastSweep, closed, now>>
    /\ UNCHANGED <<cfg, mw, admitted, px, logq, traces, sinkVars, lifeVars, callers>>

\* MemoryStore.Increment called by the checkLimit in flight (on a closed
\* store the write to the nil map ends the process)
StoreIncrement ==
    /\ pending # <<>>
    /\ ~closed
    /\ EntryOf(data, pending[1].key).count < MaxCount
    /\ data' = MemIncrement(data, pending[1].key, pending[1].resetTime, now).data
    /\ born' = IF pending[1].key \in DOMAIN data THEN born
               ELSE born @@ (pending[1].key :> now)
    /\ pending' = <<>>
    /\ UNCHANGED <<call, lastSweep, closed, now>>
    /\ UNCHANGED <<cfg, mw, admitted, px, logq, traces, sinkVars, lifeVars, callers>>

\* MemoryStore.Reset
StoreReset(key) ==
    /\ ~closed
    /\ key \in DOMAIN data
    /\ data' = [k \in DOMAIN data \ {key} |-> data[k]]
    /\ born' = [k \in DOMAIN born \ {key} |-> born[k]]
    /\ UNCHANGED <<call, pending, lastSweep, closed, now>>
    /\ UNCHANGED <<cfg, mw, admitted, px, logq, traces, sinkVars, lifeVars, callers>>

\* one iteration of `for range s.clean.C` in MemoryStore.cleanup: the ticker
\* fires cleanupInterval after the previous tick
cleanup ==
    /\ ~closed
    /\ now = lastSweep + SweepInterval
    /\ \E d \in {Sweep(data, now)} :
       /\ data' = d
       /\ born' = [k \in DOMAIN d |-> born[k]]
    /\ lastSweep' = now
    /\ UNCHANGED <<call, pending, closed, now>>
    /\ UNCHANGED <<cfg, mw, admitted, px, logq, traces, sinkVars, lifeVars, callers>>

\* MemoryStore.Close: the ticker is stopped, the map becomes nil
StoreClose ==
    /\ ~closed
    /\ closed' = TRUE
    /\ data' = [k \in {} |-> [count |-> 0, resetTime |-> 0]]
    /\ born' = [k \in {} |-> 0]
    /\ UNCHANGED <<call, pending, lastSweep, now>>
    /\ UNCHANGED <<cfg, mw, admitted, px, logq, traces, sinkVars, lifeVars, callers>>

\* time passes; while the store is open the sweeper runs when its tick is due
StoreTick ==
    /\ now < MaxTime
    /\ closed \/ now < lastSweep + SweepInterval
    /\ now' = now + 1
    /\ UNCHANGED <<data, call, pending, lastSweep, born, closed>>
    /\ UNCHANGED <<cfg, mw, admitted, px, logq, traces, sinkVars, lifeVars, callers>>

NextStore ==
    \/ \E key \in StoreKeys, window \in StoreWindows, adv \in BOOLEAN, inc \in BOOLEAN :
          StoreGet(key, window, adv, inc)
    \/ StoreIncrement
    \/ \E key \in StoreKeys : StoreReset(key)
    \/ cleanup
    \/ StoreClose
    \/ StoreTick

InitOpenStore ==
    /\ Init
    /\ cfg = ShippedConfig

SpecStore == InitOpenStore /\ [][NextStore]_vars

\* ----------------------------------------------------------------------
\* MemoryStore.Increment called with any key and any reset time (the method
\* is part of the Store interface), next to Reset, the sweeper and the clock
\* ----------------------------------------------------------------------
\* reset times a checkLimit passes at clock reading t: the reading of its Get
\* (a window that began and ended in one reading) or that reading + window
ResetTimes(t) == {t} \cup {t + w : w \in StoreWindows}

\* MemoryStore.Increment(ctx, key, resetTime)
Increment(key, resetTime) ==
    /\ ~closed
    /\ pending = <<>>
    /\ \E r \in {MemIncrement(data, key, resetTime, now)} :
       /\ r.count <= MaxCount
       /\ data' = r.data
       /\ call' = [op |-> "Increment", seq |-> 1 - call.seq, key |-> key, t |-> 0,
                   had |-> key \in DOMAIN data, before |-> EntryOf(data, key),
                   count |-> r.count, resetTime |-> resetTime]
    /\ born' = IF key \in DOMAIN data THEN born ELSE born @@ (key :> now)
    /\ UNCHANGED <<pending, lastSweep, closed, now>>
    /\ UNCHANGED <<cfg, mw, admitted, px, logq, traces, sinkVars, lifeVars, callers>>

NextIncrement ==
    \/ \E key \in StoreKeys, resetTime \in ResetTimes(now) : Increment(key, resetTime)
    \/ \E key \in StoreKeys : StoreReset(key)
    \/ cleanup
    \/ StoreTick

SpecIncrement == InitOpenStore /\ [][NextIncrement]_vars

\* ----------------------------------------------------------------------
\* Several requests of one client checked side by side: each caller runs
\* the checkLimit of the global tier on the same key, its Get and its
\* Increment being separate store calls that other callers' calls may come
\* between
\* ----------------------------------------------------------------------
NumCallers == 4     \* requests of the client in one run

\* the key of the tier the callers share
SharedKey == "a"

\* a caller enters checkLimit: store.Get, the window test and the comparison
\* with limit + burst; it returns a limited result or goes on to Increment
CallerGet(adv) ==
    /\ Len(callers) < NumCallers
    /\ \E got \in {MemGet(data, SharedKey, now)} :
       LET fresh == now > got.resetTime \/ (got.clock /\ adv)
           count == IF fresh THEN 0 ELSE got.count
           resetTime == IF fresh THEN now + cfg.Global.Window ELSE got.resetTime
       IN callers' = Append(callers,
              [pc |-> IF overLimit(count, cfg.Global.Requests, cfg.Global.Burst)
                      THEN "limited" ELSE "got",
               resetTime |-> resetTime])
    /\ UNCHANGED <<cfg, now, data, mw, admitted, px, logq, traces>>
    /\ UNCHANGED <<storeVars, sinkVars, lifeVars>>

\* caller i calls store.Increment and returns an admitted result, which is
\* counted for the window the record then has
CallerIncrement(i) ==
    /\ i \in 1..Len(callers)
    /\ callers[i].pc = "got"
    /\ \E r \in {MemIncrement(data, SharedKey, callers[i].resetTime, now)} :
       LET reset == r.data[SharedKey].resetTime
           fresh == [reset |-> reset, n |-> 1,
                     cap |-> cfg.Global.Requests + cfg.Global.Burst]
       IN /\ data' = r.data
          /\ admitted' = IF SharedKey \in DOMAIN admitted
                         THEN IF admitted[SharedKey].reset = reset
                              THEN [admitted EXCEPT ![SharedKey].n = @ + 1]
                              ELSE [admitted EXCEPT ![SharedKey] = fresh]
                         ELSE admitted @@ (SharedKey :> fresh)
    /\ born' = IF SharedKey \in DOMAIN data THEN born ELSE born @@ (SharedKey :> now)
    /\ callers' = [callers EXCEPT ![i].pc = "done"]
    /\ UNCHANGED <<cfg, now, mw, px, logq, traces>>
    /\ UNCHANGED <<call, pending, lastSweep, closed, sinkVars, lifeVars>>

NextContention ==
    \/ \E adv \in BOOLEAN : CallerGet(adv)
    \/ \E i \in 1..NumCallers : CallerIncrement(i)
    \/ cleanup
    \/ StoreTick

\* the limiter started with a global tier that has a burst
InitContention ==
    /\ Init
    /\ cfg.Global.Burst > 0

SpecContention == InitContention /\ [][NextContention]_vars

\* ======================================================================
\* The worker-pool LoggerService: LogRequest and LogResponse send a record
\* on the direction's buffered channel; workerCount workers per direction
\* receive records into a local batch and pass the batch to
\* Repository.SaveLogs when it is full or when their ticker fires; Shutdown
\* closes done and both channels, waits for the workers and closes the
\* repository.  A record is the number of the call that published it; 0 is
\* the nil a receive from a closed, empty channel yields.
\* ======================================================================
Range(q) == {q[i] : i \in 1..Len(q)}

\* the channel of a direction
Chan(dir) == IF dir = "request" THEN requestChan ELSE responseChan

\* close(s.requestChan) / close(s.responseChan) has run
chanClosed(dir) ==
    IF dir = "request" THEN sd \in {"requestChanClosed", "waiting", "repoClosed"}
    ELSE sd \in {"waiting", "repoClosed"}

\* the channel of a direction becomes q
SetChan(dir, q) ==
    IF dir = "request" THEN requestChan' = q /\ UNCHANGED responseChan
    ELSE responseChan' = q /\ UNCHANGED requestChan

\* `s.requestChan <- log`: a send on a closed channel panics, a send on a
\* channel with room buffers the record, a send on a full channel waits
chanSend(dir, r) ==
    IF chanClosed(dir)
    THEN crashed' = TRUE /\ UNCHANGED <<requestChan, responseChan, senders>>
    ELSE IF Len(Chan(dir)) < BufferSize
    THEN SetChan(dir, Append(Chan(dir), r)) /\ UNCHANGED <<senders, crashed>>
    ELSE /\ senders' = senders \cup {[id |-> r, dir |-> dir]}
         /\ UNCHANGED <<requestChan, responseChan, crashed>>

\* LoggerService.LogRequest
LogRequest ==
    /\ ~crashed
    /\ nrec < MaxRecords
    /\ nrec' = nrec + 1
    /\ chanSend("request", nrec + 1)
    /\ UNCHANGED <<batch, saves, sd, exited>>
    /\ UNCHANGED <<coreVars, storeVars, lifeVars, callers>>

\* LoggerService.LogResponse
LogResponse ==
    /\ ~crashed
    /\ nrec < MaxRecords
    /\ nrec' = nrec + 1
    /\ chanSend("response", nrec + 1)
    /\ UNCHANGED <<batch, saves, sd, exited>>
    /\ UNCHANGED <<coreVars, storeVars, lifeVars, callers>>

\* a waiting send goes through: the channel has room again, or it has been
\* closed and the send panics
SendCompletes(c) ==
    /\ ~crashed
    /\ c \in senders
    /\ IF chanClosed(c.dir)
       THEN crashed' = TRUE /\ UNCHANGED <<requestChan, responseChan, senders>>
       ELSE /\ Len(Chan(c.dir)) < BufferSize
            /\ SetChan(c.dir, Append(Chan(c.dir), c.id))
            /\ senders' = senders \ {c}
            /\ UNCHANGED crashed
    /\ UNCHANGED <<batch, saves, nrec, sd, exited>>
    /\ UNCHANGED <<coreVars, storeVars, lifeVars, callers>>

\* s.repo.SaveLogs(ctx, logs) with the records of the batch b: what saves
\* becomes
SaveLogs(sv, b) ==
    [r \in DOMAIN sv |-> IF r \in Range(b) /\ sv[r] < 2 THEN sv[r] + 1 ELSE sv[r]]

\* a flush that keeps the records in the batch
afterFlush_keep(b) == b

\* `batch = batch[:0]` after a flush
afterFlush(b) == <<>>

\* saveBatchRequestLogs / saveBatchResponseLogs of worker w with batch b, and
\* the reset of the batch; reading the fields of a nil record panics.  call
\* holds the last batch handed to repo.SaveLogs and the worker that did.
flush(w, b) ==
    IF 0 \in Range(b)
    THEN crashed' = TRUE /\ UNCHANGED <<batch, saves, call>>
    ELSE /\ saves' = SaveLogs(saves, b)
         /\ batch' = [batch EXCEPT ![w] = afterFlush(b)]
         /\ call' = [op |-> "SaveLogs", worker |-> w, batch |-> b]
         /\ UNCHANGED crashed

\* a worker's select takes `case <-s.done`: the worker returns
WorkerDone(w) ==
    /\ ~crashed
    /\ w \notin exited
    /\ sd # "running"
    /\ exited' = exited \cup {w}
    /\ UNCHANGED <<requestChan, responseChan, batch, saves, senders, nrec, sd, crashed>>
    /\ UNCHANGED <<coreVars, storeVars, lifeVars, callers>>

\* a worker's select takes `case log := <-s.requestChan` (responseChan)
WorkerReceive(w) ==
    /\ ~crashed
    /\ w \notin exited
    /\ Chan(w[1]) # <<>> \/ chanClosed(w[1])
    /\ LET log == IF Chan(w[1]) # <<>> THEN Head(Chan(w[1])) ELSE 0
           b == Append(batch[w], log)
       IN /\ IF Chan(w[1]) # <<>> THEN SetChan(w[1], Tail(Chan(w[1])))
             ELSE UNCHANGED <<requestChan, responseChan>>
          /\ IF Len(b) >= BatchSize
             THEN flush(w, b)
             ELSE batch' = [batch EXCEPT ![w] = b] /\ UNCHANGED <<saves, crashed, call>>
    /\ UNCHANGED <<senders, nrec, sd, exited>>
    /\ UNCHANGED <<coreVars, pending, lastSweep, born, closed, lifeVars, callers>>

\* a batch that is flushed whether or not it holds records
WorkerTick_always(w) ==
    /\ ~crashed
    /\ w \notin exited
    /\ flush(w, batch[w])
    /\ UNCHANGED <<requestChan, responseChan, senders, nrec, sd, exited>>
    /\ UNCHANGED <<coreVars, pending, lastSweep, born, closed, lifeVars, callers>>

\* a worker's select takes `case <-ticker.C` with records in its batch
WorkerTick(w) ==
    /\ ~crashed
    /\ w \notin exited
    /\ Len(batch[w]) > 0
    /\ flush(w, batch[w])
    /\ UNCHANGED <<requestChan, responseChan, senders, nrec, sd, exited>>
    /\ UNCHANGED <<coreVars, pending, lastSweep, born, closed, lifeVars, callers>>

\* LoggerService.Shutdown, statement by statement
Shutdown ==
    /\ ~crashed
    /\ \/ sd = "running" /\ sd' = "doneClosed"
       \/ sd = "doneClosed" /\ sd' = "requestChanClosed"
       \/ sd = "requestChanClosed" /\ sd' = "waiting"
       \/ sd = "waiting" /\ exited = Workers /\ sd' = "repoClosed"
    /\ UNCHANGED <<requestChan, responseChan, batch, saves, senders, nrec, exited, crashed>>
    /\ UNCHANGED <<coreVars, storeVars, lifeVars, callers>>

\* the service from NewLoggerService to Shutdown
NextSink ==
    \/ LogRequest
    \/ LogResponse
    \/ \E c \in senders : SendCompletes(c)
    \/ \E w \in Workers : WorkerReceive(w)
    \/ \E w \in Workers : WorkerTick(w)
    \/ \E w \in Workers : WorkerDone(w)
    \/ Shutdown

InitSinkSpec ==
    /\ Init
    /\ cfg = ShippedConfig

SpecSink == InitSinkSpec /\ [][NextSink]_vars

\* the running service (Shutdown is not called): the scheduler lets every
\* worker run, and a worker's ticker fires every 100 ms
NextRunning ==
    \/ LogRequest
    \/ LogResponse
    \/ \E c \in senders : SendCompletes(c)
    \/ \E w \in Workers : WorkerReceive(w)
    \/ \E w \in Workers : WorkerTick(w)

SpecSinkRunning ==
    /\ InitSinkSpec
    /\ [][NextRunning]_vars
    /\ \A w \in Workers : WF_vars(WorkerReceive(w)) /\ WF_vars(WorkerTick(w))

\* ======================================================================
\* The proxy pipeline: ProxyHandler.Handle with the script engine
\* (transform.Engine), the header policy (HttpRequestResponseTransformer),
\* the upstream round trip and the per-request logging tasks
\* ======================================================================
MaxTrace == 2       \* requests the proxy handler serves in one run

\* proxy.target and proxy.transform.services of the configuration
Target == "http://upstream:8080"
Services == << [URL |-> "/auth/login", ServiceName |-> "auth"],
               [URL |-> "/users/profile", ServiceName |-> "user"] >>

\* the requests that reach the proxy handler
ProxyRequests ==
    { [method |-> "POST", path |-> "/auth/login", query |-> "",
       body |-> "{ \"user\": \"u\", \"password\": \"p\" }",
       headers |-> ("Content-Type" :> "application/json") @@ ("X-Internal-Token" :> "s3")],
      [method |-> "GET", path |-> "/users/profile", query |-> "?id=7", body |-> "",
       headers |-> ("X-B3-Traceid" :> "b3")],
      [method |-> "POST", path |-> "/foo", query |-> "?x=1", body |-> "hello",
       headers |-> ("Content-Type" :> "text/plain")],
      [method |-> "GET", path |-> "/metrics", query |-> "", body |-> "",
       headers |-> EmptyMap] }

\* ------------------------------------------------------------- bodies
\* the JSON texts among the bodies, with their compact re-serialization
JSONTexts ==
    ("{ \"user\": \"u\", \"password\": \"p\" }" :> "{\"user\":\"u\",\"password\":\"p\"}")
    @@ ("{\"user\":\"u\",\"password\":\"p\"}" :> "{\"user\":\"u\",\"password\":\"p\"}")
    @@ ("{\"user\":\"u\",\"password\":\"********\"}" :> "{\"user\":\"u\",\"password\":\"********\"}")
    @@ ("{ \"id\": 7 }" :> "{\"id\":7}")
    @@ ("{\"id\":7}" :> "{\"id\":7}")
    @@ ("{\"id\":7,\"masked\":true}" :> "{\"id\":7,\"masked\":true}")

\* the envelope's body field: the value json.Unmarshal yields (named by its
\* compact text) when the body parses, else the body as a string
EnvelopeBody(body) ==
    IF body \in DOMAIN JSONTexts
    THEN [json |-> TRUE, text |-> JSONTexts[body]]
    ELSE [json |-> FALSE, text |-> body]

\* ------------------------------------------------------------- headers
\* textproto.CanonicalMIMEHeaderKey, as applied by http.Header.Set
CanonicalHeaderKey(name) ==
    CASE name = "x-service" -> "X-Service"
      [] name = "x-request-id" -> "X-Request-Id"
      [] name = "X-Request-ID" -> "X-Request-Id"
      [] name = "X-Correlation-ID" -> "X-Correlation-Id"
      [] name = "X-XSS-Protection" -> "X-Xss-Protection"
      [] name = "X-Trace-ID" -> "X-Trace-Id"
      [] name = "X-AspNet-Version" -> "X-Aspnet-Version"
      [] name = "X-B3-TraceId" -> "X-B3-Traceid"
      [] name = "x-b3-traceid" -> "X-B3-Traceid"
      [] OTHER -> name

\* header.Set(k, v) for every entry of the map m
SetAll(h, m) ==
    LET keys == {CanonicalHeaderKey(n) : n \in DOMAIN m} IN
    [k \in DOMAIN h \cup keys |->
        IF k \in keys
        THEN m[CHOOSE n \in DOMAIN m : CanonicalHeaderKey(n) = k]
        ELSE h[k]]

\* header.Del(k) for every name
DelAll(h, names) ==
    [k \in DOMAIN h \ {CanonicalHeaderKey(n) : n \in names} |-> h[k]]

\* headerToMap: the envelope's headers field
headerToMap(h) == h

\* ------------------------------------------------------------- scripts
\* the effects of running a request script (NoScript: it changes nothing)

RequestScripts ==
    { [fail |-> TRUE, set |-> EmptyMap, body |-> <<>>],
      NoScript,
      \* sets headers of its own, X-Request-ID and X-Internal-Token, masks the
      \* password in the body
      [fail |-> FALSE,
       set |-> ("x-service" :> "auth") @@ ("X-Service-Version" :> "1.0")
               @@ ("X-Request-ID" :> "js-1") @@ ("X-Internal-Token" :> "js-2"),
       body |-> <<[json |-> TRUE, text |-> "{\"user\":\"u\",\"password\":\"********\"}"]>>] }

\* the effects of running a response script
ResponseScripts ==
    { [fail |-> TRUE, set |-> EmptyMap, body |-> <<>>],
      NoScript,
      [fail |-> FALSE,
       set |-> ("x-service" :> "user") @@ ("Cache-Control" :> "max-age=60")
               @@ ("Server" :> "edge"),
       body |-> <<[json |-> TRUE, text |-> "{\"id\":7,\"masked\":true}"]>>] }

\* the envelope after the script ran
Envelope(h, body, script) ==
    [headers |-> script.set @@ headerToMap(h),
     body |-> IF script.body = <<>> THEN EnvelopeBody(body) ELSE script.body[1]]

\* ------------------------------------------------------------- upstream
\* What the upstream does with a request it receives: fail |-> TRUE is a
\* connection-level failure (refused, timeout)
Upstreams ==
    { [fail |-> TRUE, status |-> 0, headers |-> EmptyMap, body |-> ""],
      [fail |-> FALSE, status |-> 200,
       headers |-> ("Content-Type" :> "application/json") @@ ("Server" :> "nginx"),
       body |-> "{ \"id\": 7 }"],
      [fail |-> FALSE, status |-> 404, headers |-> ("X-Debug-Info" :> "trace"),
       body |-> "not found"] }

\* ---------------------------------------------------------- script engine
\* an always-matching lookup
findMatchingService_first(path) == <<Services[1]>>

\* Engine.findMatchingService: <<>> for nil, else <<the first service whose
\* URL equals the path>>
findMatchingService(path) ==
    LET hits == {i \in 1..Len(Services) : Services[i].URL = path} IN
    IF hits = {} THEN <<>>
    ELSE <<Services[CHOOSE i \in hits : \A j \in hits : i <= j]>>

\* a read-back that applies nothing
applyHeaders_none(h, env) == h

\* `for k, v := range headerMap { header.Set(k, fmt.Sprint(v)) }`: the only
\* part of the envelope that is applied back
applyHeaders(h, env) == SetAll(h, env.headers)

\* Engine.TransformRequest / Engine.TransformResponse on the headers h and
\* the unread body: the error, the headers, what is left to read of the body
\* (ioutil.ReadAll consumes it, nothing puts it back) and the envelope
Transform(path, h, body, script) ==
    IF findMatchingService(path) = <<>>
    THEN [err |-> "", headers |-> h, rest |-> body, env |-> <<>>]
    ELSE IF script.fail
    THEN [err |-> "script error", headers |-> h, rest |-> "", env |-> <<>>]
    ELSE LET env == Envelope(h, body, script) IN
         [err |-> "", headers |-> applyHeaders(h, env), rest |-> "", env |-> <<env>>]

\* ----------------------------------------------------------- header policy
\* HttpRequestResponseTransformer.transformRequestHeaders; id is the fresh
\* uuid.  The B3 loop deletes and sets the same canonical name and so leaves
\* the headers as they are.
transformRequestHeaders(h, id) ==
    SetAll(DelAll(h, {"X-Powered-By", "Server", "X-AspNet-Version", "X-Internal-Token"}),
           ("X-Request-ID" :> id) @@ ("X-Proxy-Version" :> "1.0")
           @@ ("X-Correlation-ID" :> id) @@ ("Accept" :> "application/json")
           @@ ("Content-Type" :> "application/json"))

\* HttpRequestResponseTransformer.transformResponseHeaders on the response
\* headers h of the request with headers reqh, at clock reading t
transformResponseHeaders(h, reqh, t) ==
    LET kept == DelAll(h, {"X-Internal-Server", "X-Debug-Info", "X-AspNet-Version",
                           "X-Powered-By", "Server"})
        std == SetAll(kept,
                   ("X-Content-Type-Options" :> "nosniff") @@ ("X-Frame-Options" :> "DENY")
                   @@ ("X-XSS-Protection" :> "1; mode=block")
                   @@ ("Cache-Control" :> "no-store, no-cache, must-revalidate")
                   @@ ("Pragma" :> "no-cache")
                   @@ ("Strict-Transport-Security" :> "max-age=31536000; includeSubDomains")
                   @@ ("Content-Security-Policy" :> "default-src 'self'")
                   @@ ("Referrer-Policy" :> "strict-origin-when-cross-origin")
                   @@ ("X-Response-Time" :> ToString(t)))
    IN IF "X-B3-Traceid" \in DOMAIN reqh /\ reqh["X-B3-Traceid"] # ""
       THEN SetAll(std, ("X-Trace-ID" :> reqh["X-B3-Traceid"]))
       ELSE std

\* -------------------------------------------------------------- round trip
\* h.proxy.Transport.RoundTrip: the request announces ContentLength bytes of
\* body and `rest` is what its body reader still yields.  When the two differ
\* the write of the request fails before anything is sent; on a reused
\* connection (reused: the transport had an idle one) the transport then
\* sends the request again with the body of GetBody, the bytes the request
\* was created with; on a new connection it returns the error.
RoundTrip(req, rest, up, reused) ==
    IF up.fail THEN [err |-> "connection refused", sent |-> <<>>]
    ELSE IF Len(rest) # req.ContentLength
    THEN IF reused
         THEN [err |-> "", sent |-> <<[method |-> req.method, url |-> req.url,
                                       headers |-> req.headers, body |-> req.GetBody]>>]
         ELSE [err |-> "http: ContentLength with Body length 0", sent |-> <<>>]
    ELSE [err |-> "", sent |-> <<[method |-> req.method, url |-> req.url,
                                  headers |-> req.headers, body |-> rest]>>]

\* ------------------------------------------------------------------ handler
\* model.Log, the fields the handler gives a value that differs per record
\* (Error is a field the handler never assigns)
Log(trace, n, type, timestamp, status, duration) ==
    [ID |-> <<trace, n>>, TraceID |-> trace, ProcessType |-> type,
     Timestamp |-> timestamp, StatusCode |-> status, ResponseTime |-> duration,
     Error |-> ""]

\* a duration measured from the later reading to the earlier one
Since_reversed(startTime, t) == startTime - t

\* time.Since(startTime) at clock reading t
Since(startTime, t) == t - startTime

\* what identifies a Log among the logging tasks
LogKey(l) == [TraceID |-> l.TraceID, ProcessType |-> l.ProcessType]

\* the handler returned err: fiber's default error handler answers with
\* status 500 and the error text
Failed(err, sent, logs, attempts) ==
    [sent |-> sent, status |-> 500, body |-> err,
     headers |-> EmptyMap, err |-> err, logs |-> logs,
     attempts |-> attempts, metrics |-> <<>>]

\* proxy.retry_count of the configuration
RetryCount == 3

\* h.metrics.ObserveRequestDuration / IncRequestCounter: the metric updated
\* and its labels
Metric(name, method, path, status) ==
    [name |-> name, method |-> method, path |-> path, status |-> status]

\* ProxyHandler.Handle for a path other than /metrics: what the upstream is
\* sent, what the client receives, the Logs handed to the logging tasks, the
\* calls of Transport.RoundTrip made and the metrics updated
Proxy(req, rs, up, ps, reused, trace, startTime, endTime) ==
    LET targetURL == Target \o req.path \o req.query
        tq == Transform(req.path, SetAll(EmptyMap, req.headers), req.body, rs)
    IN IF tq.err # "" THEN Failed(tq.err, <<>>, {}, 0)
    ELSE
    LET hq == transformRequestHeaders(tq.headers, "uuid")
        reqLog == Log(trace, 1, "request", startTime, 0, 0)
        rt == RoundTrip([method |-> req.method, url |-> targetURL, headers |-> hq,
                         ContentLength |-> Len(req.body), GetBody |-> req.body],
                        tq.rest, up, reused)
    IN IF rt.err # "" THEN Failed(rt.err, <<>>, {reqLog}, 1)
    ELSE
    LET tp == Transform(req.path, up.headers, up.body, ps)
    IN IF tp.err # "" THEN Failed(tp.err, rt.sent, {reqLog}, 1)
    ELSE
    LET copied == SetAll(EmptyMap, tp.headers)
        body == tp.rest
        hp == transformResponseHeaders(tp.headers, hq, endTime)
        respLog == Log(trace, 2, "response", startTime, up.status,
                      Since(startTime, endTime))
    IN [sent |-> rt.sent, status |-> up.status, body |-> body,
        headers |-> SetAll(copied, hp), err |-> "", logs |-> {reqLog, respLog},
        attempts |-> 1,
        metrics |-> << Metric("request_duration_seconds", req.method, req.path, up.status),
                       Metric("requests_total", req.method, req.path, up.status) >>]

\* ProxyHandler.Handle.  The inputs are the request, the effect of the two
\* scripts, the upstream's behaviour, whether the transport reuses a
\* connection and the time the exchange takes; an input that the handler does
\* not get to use is fixed.  /metrics is passed on with c.Next(): no handler
\* follows, the framework answers 404.
Handle(req, rs, up, ps, reused, dt) ==
    /\ traces < MaxTrace
    /\ now + dt <= MaxTime
    /\ LET matched == findMatchingService(req.path) # <<>> IN
       /\ ~matched => rs = NoScript /\ ps = NoScript
       /\ rs.fail => up = Unreachable
       /\ (up.fail \/ req.path = "/metrics") => ps = NoScript /\ dt = 0
       /\ req.path = "/metrics" => up = Unreachable
       /\ reused => /\ matched /\ req.body # "" /\ ~rs.fail /\ ~up.fail
                    /\ req.path # "/metrics"
    /\ IF req.path = "/metrics"
       THEN /\ px' = [NoProxied EXCEPT !.handled = TRUE, !.next = TRUE, !.req = req,
                                       !.status = 404]
            /\ UNCHANGED <<logq, traces>>
       ELSE \E r \in {Proxy(req, rs, up, ps, reused, traces + 1, now, now + dt)} :
            /\ px' = [handled |-> TRUE, next |-> FALSE, trace |-> traces + 1,
                      req |-> req, rs |-> rs, up |-> up, ps |-> ps,
                      sent |-> r.sent, status |-> r.status, body |-> r.body,
                      headers |-> r.headers, err |-> r.err, logs |-> r.logs,
                      attempts |-> r.attempts, metrics |-> r.metrics]
            /\ logq' = logq \cup {LogKey(l) : l \in r.logs}
            /\ traces' = traces + 1
    /\ now' = now + dt
    /\ UNCHANGED <<cfg, data, mw, admitted, auxVars>>

\* one logging task `go func(log) { h.logSvc.LogRequest(log) }` runs:
\* LoggerService.LogRequest hands the Log to Repository.SaveLog and the task
\* ends, whatever SaveLog returns
LogTask(l) ==
    /\ l \in logq
    /\ logq' = logq \ {l}
    /\ UNCHANGED <<cfg, now, data, mw, admitted, px, traces, auxVars>>

InitP ==
    /\ cfg = ShippedConfig
    /\ now = 0
    /\ data = [k \in {} |-> [count |-> 0, resetTime |-> 0]]
    /\ mw = NoExchange
    /\ admitted = [k \in {} |-> [reset |-> 0, n |-> 0, cap |-> 0]]
    /\ px = NoProxied
    /\ logq = {}
    /\ traces = 0
    /\ InitStore
    /\ InitSink
    /\ InitLife
    /\ callers = <<>>

NextP ==
    \/ \E req \in ProxyRequests :
       \E rs \in IF findMatchingService(req.path) # <<>> THEN RequestScripts ELSE {NoScript} :
       \E up \in IF rs.fail \/ req.path = "/metrics" THEN {Unreachable} ELSE Upstreams :
       \E ps \in IF up.fail \/ findMatchingService(req.path) = <<>>
                 THEN {NoScript} ELSE ResponseScripts :
       \E reused \in IF up.fail \/ req.body = "" THEN {FALSE} ELSE BOOLEAN :
       \E dt \in IF up.fail THEN {0} ELSE 0..MaxJump :
          Handle(req, rs, up, ps, reused, dt)
    \/ \E l \in logq : LogTask(l)

SpecProxy == InitP /\ [][NextP]_vars

\* ======================================================================
\* The process around the handler: the invocations of Handle from entry to
\* return (the framework runs them side by side), the logging tasks they
\* start, and main's teardown after SIGINT / SIGTERM
\* ======================================================================
\* a gauge decremented only when the handler returns without an error
deferDecActiveRequests_successOnly(g, err) == IF err = "" THEN g - 1 ELSE g

\* `defer h.metrics.DecActiveRequests()`: runs when Handle returns, with or
\* without an error
deferDecActiveRequests(g, err) == g - 1

\* Handle is entered: /metrics is passed on with c.Next(); for any other path
\* the gauge is incremented, the start time read and the trace id drawn
HandleEnter(req) ==
    /\ teardown = "serving"
    /\ traces < MaxTrace
    /\ IF req.path = "/metrics"
       THEN /\ px' = [NoProxied EXCEPT !.handled = TRUE, !.next = TRUE, !.req = req,
                                       !.status = 404]
            /\ UNCHANGED <<traces, activeRequests, inflight>>
       ELSE /\ activeRequests' = activeRequests + 1
            /\ traces' = traces + 1
            /\ inflight' = inflight \cup {[trace |-> traces + 1, req |-> req,
                                            startTime |-> now]}
            /\ UNCHANGED px
    /\ UNCHANGED <<cfg, now, data, mw, admitted, logq, storeVars, sinkVars, callers>>
    /\ UNCHANGED <<teardown, errorsTotal, saveErrors>>

\* the invocation c of Handle runs from line 214 to its return: the exchange
\* as in Proxy, then the deferred decrement of the gauge
HandleReturn(c, rs, up, ps) ==
    /\ c \in inflight
    /\ \E r \in {Proxy(c.req, rs, up, ps, FALSE, c.trace, c.startTime, now)} :
       /\ px' = [handled |-> TRUE, next |-> FALSE, trace |-> c.trace,
                 req |-> c.req, rs |-> rs, up |-> up, ps |-> ps,
                 sent |-> r.sent, status |-> r.status, body |-> r.body,
                 headers |-> r.headers, err |-> r.err, logs |-> r.logs,
                 attempts |-> r.attempts, metrics |-> r.metrics]
       /\ logq' = logq \cup {LogKey(l) : l \in r.logs}
       /\ activeRequests' = deferDecActiveRequests(activeRequests, r.err)
    /\ inflight' = inflight \ {c}
    /\ UNCHANGED <<cfg, now, data, mw, admitted, traces, storeVars, sinkVars, callers>>
    /\ UNCHANGED <<teardown, errorsTotal, saveErrors>>

\* one logging task runs: LoggerService.LogRequest returns what
\* Repository.SaveLog returns (an error when ok is false, always an error on
\* a closed repository); the task logs the error with h.logger and ends
SaveLogTask(l, ok) ==
    /\ l \in logq
    /\ teardown # "exited"
    /\ teardown = "repoClosed" => ~ok
    /\ logq' = logq \ {l}
    /\ saveErrors' = IF ok THEN saveErrors ELSE saveErrors + 1
    /\ UNCHANGED <<cfg, now, data, mw, admitted, px, traces, storeVars, sinkVars, callers>>
    /\ UNCHANGED <<teardown, activeRequests, inflight, errorsTotal>>

\* main after `<-quit`, statement by statement: app.Shutdown() closes the
\* listener and returns when no invocation is in flight, then repo.Close(),
\* then rateLimiter.Close() (Service.Close closes the store), then main
\* returns
Teardown ==
    /\ \/ teardown = "serving" /\ teardown' = "shuttingDown" /\ UNCHANGED <<data, storeVars>>
       \/ /\ teardown = "shuttingDown" /\ inflight = {}
          /\ teardown' = "serverStopped" /\ UNCHANGED <<data, storeVars>>
       \/ teardown = "serverStopped" /\ teardown' = "repoClosed" /\ UNCHANGED <<data, storeVars>>
       \/ /\ teardown = "repoClosed" /\ teardown' = "exited"
          /\ closed' = TRUE
          /\ data' = [k \in {} |-> [count |-> 0, resetTime |-> 0]]
          /\ born' = [k \in {} |-> 0]
          /\ UNCHANGED <<call, pending, lastSweep>>
    /\ UNCHANGED <<cfg, now, mw, admitted, px, logq, traces, sinkVars, callers>>
    /\ UNCHANGED <<activeRequests, inflight, errorsTotal, saveErrors>>

NextProcess ==
    \/ \E req \in ProxyRequests : HandleEnter(req)
    \/ \E c \in inflight :
       \E rs \in IF findMatchingService(c.req.path) # <<>> THEN RequestScripts ELSE {NoScript} :
       \E up \in IF rs.fail THEN {Unreachable} ELSE Upstreams :
       \E ps \in IF up.fail \/ findMatchingService(c.req.path) = <<>>
                 THEN {NoScript} ELSE ResponseScripts :
          HandleReturn(c, rs, up, ps)
    \/ \E l \in logq, ok \in BOOLEAN : SaveLogTask(l, ok)
    \/ Teardown

SpecProcess == InitP /\ [][NextProcess]_vars

\* ======================================================================
\* Properties of the rate limiter and its middleware (specification Spec)
\* ======================================================================
LastEvals == mw.evals

\* the request of the last exchange skipped all tiers: limiter off or
\* whitelisted address
OnWhiteList(ip) ==
    \E i \in 1..Len(cfg.PerIP.WhiteList) :
        LET e == cfg.PerIP.WhiteList[i]
            size == 2^(IPBits - e.bits)
            lo == (e.base \div size) * size
        IN IF e.cidr
           THEN e.bits <= IPBits /\ \E n \in lo..(lo + size - 1) : ToString(n) = ip
           ELSE e.ip = ip

ViaWhiteList == cfg.Enabled /\ cfg.PerIP.Enabled /\ OnWhiteList(mw.req.ip)

RouteMatches(r, req) ==
    /\ r.Method = "*" \/ r.Method = req.method
    /\ pathMatch(r.Path, req.path)

Matching(req) == {i \in 1..Len(cfg.Routes) : RouteMatches(cfg.Routes[i], req)}

C3_TiersInOrderFirstLimitEnds ==
    (mw.handled /\ cfg.Enabled /\ ~ViaWhiteList) =>
        LET ev == mw.evals
            n == Len(ev)
            applicable == (IF Matching(mw.req) # {} THEN <<"route">> ELSE <<>>)
                          \o (IF cfg.PerIP.Enabled THEN <<"ip">> ELSE <<>>)
                          \o <<"global">>
        IN /\ n >= 1 /\ n <= Len(applicable)
           /\ \A i \in 1..n : ev[i].tier = applicable[i] /\ ev[i].key[Len(ev[i].key)] = ev[i].tier
           /\ \A i \in 1..(n - 1) : ~ev[i].result.Limited
           /\ ev[n].result.Limited \/ n = Len(applicable)
           /\ mw.result = ev[n].result
           /\ mw.result.Limited = ev[n].result.Limited
           /\ \A j \in 1..Len(mw.calls) : \E i \in 1..n : mw.calls[j][2] = ev[i].key
           /\ \A i \in 1..n : \E j \in 1..Len(mw.calls) : mw.calls[j] = <<"Get", ev[i].key>>

\* the route tier limited a request of a configuration with all three tiers
C3_Witness ==
    /\ mw.handled /\ mw.result.Limited
    /\ Len(mw.evals) = 1 /\ mw.evals[1].tier = "route"
    /\ cfg.PerIP.Enabled

\* C4: with the per-IP tier enabled, a client address that equals a whitelist
\* entry or lies in a whitelisted CIDR block is admitted without any store
\* call, whatever the state of the counters, and never answered with 429.
C4_WhitelistBypassesCounting ==
    (mw.handled /\ ViaWhiteList) =>
        /\ ~mw.result.Limited
        /\ mw.calls = <<>>
        /\ mw.status # StatusTooManyRequests
        /\ mw.nextCalled

\* an address inside a whitelisted block was admitted while a counter of the
\* store was used up
C4_Witness ==
    /\ mw.handled /\ ViaWhiteList /\ mw.req.ip = "5" /\ ~mw.result.Limited
    /\ \E k \in DOMAIN admitted : admitted[k].n = admitted[k].cap

\* C5: the route tier uses requests, window and burst of a matching route of
\* highest priority, ties broken by the longer pattern, whatever the order of
\* the routes; without a matching route no route tier is applied.
C5_RouteTierUsesBestMatch ==
    (mw.handled /\ cfg.Enabled /\ ~ViaWhiteList) =>
        LET M == Matching(mw.req)
            R == cfg.Routes
            Best == {i \in M : \A j \in M :
                        \/ R[j].Priority < R[i].Priority
                        \/ /\ R[j].Priority = R[i].Priority
                           /\ PathLen(R[j].Path) <= PathLen(R[i].Path)}
            e == mw.evals[1]
        IN IF M = {}
           THEN \A i \in 1..Len(mw.evals) : mw.evals[i].tier # "route"
           ELSE /\ e.tier = "route"
                /\ \E i \in Best : /\ e.limit = R[i].Requests
                                   /\ e.window = R[i].Window
                                   /\ e.burst = R[i].Burst

\* C6 as claimed: every admitted response, also of a whitelisted client,
\* carries X-RateLimit-Limit and X-RateLimit-Remaining, every 429 also
\* Retry-After.
C6_AllAdmittedCarryHeaders ==
    mw.handled =>
        IF mw.status = StatusTooManyRequests
        THEN {HeaderRateLimit, HeaderRateRemaining, HeaderRetryAfter} \subseteq DOMAIN mw.headers
        ELSE {HeaderRateLimit, HeaderRateRemaining} \subseteq DOMAIN mw.headers

\* C6 (amended): every response to a request admitted by a tier check carries
\* X-RateLimit-Limit and X-RateLimit-Remaining, every 429 response carries
\* these and Retry-After; a request admitted through the whitelist gets no
\* rate-limit header from the limiter.
C6_CheckedResponsesCarryHeaders ==
    mw.handled =>
        IF mw.status = StatusTooManyRequests
        THEN {HeaderRateLimit, HeaderRateRemaining, HeaderRetryAfter} \subseteq DOMAIN mw.headers
        ELSE IF ViaWhiteList
        THEN mw.result.LimitHeaders = EmptyMap
        ELSE {HeaderRateLimit, HeaderRateRemaining} \subseteq DOMAIN mw.headers

\* an admitted request of a client that is not whitelisted
C6_Witness ==
    /\ mw.handled /\ ~ViaWhiteList /\ mw.nextCalled
    /\ mw.result.Remaining = 0
    /\ HeaderRateRemaining \in DOMAIN mw.headers

\* C7: a limited request is not passed to the next handler and is answered
\* with the configured status code and the configured message as body.
C7_LimitedResponseAsConfigured ==
    (mw.handled /\ mw.result.Limited) =>
        /\ ~mw.nextCalled
        /\ mw.status = cfg.Response.StatusCode
        /\ mw.body = cfg.Response.Message

\* ======================================================================
\* Properties of the proxy pipeline (specification SpecProxy)
\* ======================================================================
\* the last exchange was proxied (its path is not the reserved /metrics)
Proxied == px.handled /\ ~px.next

\* the path of the last exchange equals a configured ServiceTransform URL
PathIsServiceURL == \E i \in 1..Len(Services) : Services[i].URL = px.req.path

\* the header map h carries the header name with the value v
Carries(h, name, v) ==
    /\ CanonicalHeaderKey(name) \in DOMAIN h
    /\ h[CanonicalHeaderKey(name)] = v

\* the names HeaderPolicy strips from or sets on a request, and those it
\* strips from or sets on a response
RequestPolicyNames ==
    {CanonicalHeaderKey(n) : n \in {"X-Powered-By", "Server", "X-AspNet-Version",
        "X-Internal-Token", "X-Request-ID", "X-Proxy-Version", "X-Correlation-ID",
        "Accept", "Content-Type"}}

ResponsePolicyNames ==
    {CanonicalHeaderKey(n) : n \in {"X-Internal-Server", "X-Debug-Info",
        "X-AspNet-Version", "X-Powered-By", "Server", "X-Content-Type-Options",
        "X-Frame-Options", "X-XSS-Protection", "Cache-Control", "Pragma",
        "Strict-Transport-Security", "Content-Security-Policy", "Referrer-Policy",
        "X-Response-Time", "X-Trace-ID"}}

\* C2: every proxied request that completes, whether the upstream answered or
\* the upstream call or a transform step failed, publishes exactly one Log
\* with process_type request and exactly one with process_type response, both
\* with the trace id of the request.
C2_OneRequestLogOneResponseLog ==
    Proxied =>
        /\ Cardinality({l \in px.logs : l.ProcessType = "request"}) = 1
        /\ Cardinality({l \in px.logs : l.ProcessType = "response"}) = 1
        /\ \A l \in px.logs : l.TraceID = px.trace

\* C8: on a path that equals a ServiceTransform URL the upstream is sent the
\* body of the envelope as the request script left it, the client is sent the
\* body of the envelope as the response script left it, and a non-empty body
\* is never replaced by an empty one.
C8_BodiesFollowEnvelope ==
    (Proxied /\ PathIsServiceURL /\ ~px.rs.fail /\ ~px.up.fail) =>
        LET envq == IF px.rs.body = <<>> THEN EnvelopeBody(px.req.body) ELSE px.rs.body[1]
            envp == IF px.ps.body = <<>> THEN EnvelopeBody(px.up.body) ELSE px.ps.body[1]
        IN /\ Len(px.sent) = 1
           /\ px.sent[1].body = envq.text
           /\ ~px.ps.fail => px.body = envp.text
           /\ (~px.ps.fail /\ px.ps.body = <<>> /\ px.up.body # "") => px.body # ""

\* C9 as claimed: every header a script sets in its envelope is carried, with
\* that value, by the forwarded request (request script) or by the response
\* sent downstream (response script), after HeaderPolicy has run.
C9_ScriptHeadersCarried ==
    Proxied =>
        /\ Len(px.sent) = 1 =>
             \A n \in DOMAIN px.rs.set : Carries(px.sent[1].headers, n, px.rs.set[n])
        /\ px.err = "" =>
             \A n \in DOMAIN px.ps.set : Carries(px.headers, n, px.ps.set[n])

\* C9 (amended): every header a script sets in its envelope under a name that
\* HeaderPolicy neither strips nor sets in that direction is carried, with
\* that value, by the forwarded request or by the response sent downstream;
\* a name HeaderPolicy sets on the request carries HeaderPolicy's value and a
\* name it strips from the request is absent.
C9_UnmanagedScriptHeadersCarried ==
    Proxied =>
        /\ Len(px.sent) = 1 =>
             /\ \A n \in DOMAIN px.rs.set :
                    CanonicalHeaderKey(n) \notin RequestPolicyNames
                        => Carries(px.sent[1].headers, n, px.rs.set[n])
             /\ Carries(px.sent[1].headers, "X-Request-ID", "uuid")
             /\ "X-Internal-Token" \notin DOMAIN px.sent[1].headers
        /\ px.err = "" =>
             \A n \in DOMAIN px.ps.set :
                 CanonicalHeaderKey(n) \notin ResponsePolicyNames
                     => Carries(px.headers, n, px.ps.set[n])

\* both scripts of a served exchange set a header under a name of their own
C9_Witness ==
    /\ Proxied /\ px.err = "" /\ Len(px.sent) = 1
    /\ "x-service" \in DOMAIN px.rs.set /\ "x-service" \in DOMAIN px.ps.set
    /\ Carries(px.sent[1].headers, "X-Service", "auth")
    /\ Carries(px.headers, "X-Service", "user")

\* C10: for a proxied request whose path equals no ServiceTransform URL the
\* script engine changes nothing: the upstream receives the incoming method,
\* the target base followed by the original URL, and the incoming body, and
\* the client receives the upstream's status code and body.
C10_NonMatchingPathPassesThrough ==
    (Proxied /\ ~PathIsServiceURL /\ ~px.up.fail) =>
        /\ Len(px.sent) = 1
        /\ px.sent[1].method = px.req.method
        /\ px.sent[1].url = Target \o px.req.path \o px.req.query
        /\ px.sent[1].body = px.req.body
        /\ px.status = px.up.status
        /\ px.body = px.up.body

\* POST /foo?x=1 with a body was answered 404 by the upstream
C10_Witness ==
    /\ Proxied /\ ~PathIsServiceURL
    /\ px.req.body # "" /\ px.req.query # ""
    /\ px.up.status = 404 /\ px.status = 404 /\ px.body = "not found"

\* C14: for every trace id the response Log is handed to the log service only
\* after the request Log of that trace id has been handed over: whenever a
\* logging task of a response Log runs, the logging task of the request Log
\* of the same trace id has run before, under every scheduling of the tasks.
C14_ResponseLogAfterRequestLog ==
    [][ \A l \in logq \ logq' :
            l.ProcessType = "response"
                => [TraceID |-> l.TraceID, ProcessType |-> "request"] \notin logq ]_vars

\* C15: when the upstream call fails with a network error or a timeout the
\* client receives a 5xx response and a response Log of the trace id is
\* published whose error field holds the error string.
C15_UpstreamFailureLogged ==
    (Proxied /\ ~px.rs.fail /\ px.up.fail) =>
        /\ px.status >= 500 /\ px.status <= 599
        /\ \E l \in px.logs : /\ l.ProcessType = "response"
                               /\ l.TraceID = px.trace
                               /\ l.Error = px.err /\ l.Error # ""

\* C16: when a transform script fails, the request (response) goes on
\* untransformed and the client request is not failed: after a failing
\* request script the upstream is still called, and after a failing response
\* script the client still receives the upstream's status and body.
C16_ScriptFailurePassesThrough ==
    (Proxied /\ PathIsServiceURL) =>
        /\ px.rs.fail => Len(px.sent) = 1
        /\ (~px.rs.fail /\ ~px.up.fail /\ px.ps.fail /\ Len(px.sent) = 1) =>
               /\ px.status = px.up.status
               /\ px.body = px.up.body

\* C18: for every request the response Log's timestamp is greater than or
\* equal to the timestamp of the request Log of the same trace id, and the
\* response Log's response time is not negative.
C18_ResponseLogNotBeforeRequestLog ==
    Proxied =>
        \A p \in px.logs : p.ProcessType = "response" =>
            /\ p.ResponseTime >= 0
            /\ \A q \in px.logs :
                   (q.ProcessType = "request" /\ q.TraceID = p.TraceID)
                       => p.Timestamp >= q.Timestamp

\* an exchange that took time was served and left both Logs
C18_Witness ==
    /\ Proxied /\ px.err = ""
    /\ \E p \in px.logs : p.ProcessType = "response" /\ p.ResponseTime > 0
    /\ \E q \in px.logs : q.ProcessType = "request" /\ q.TraceID = px.trace

\* ======================================================================
\* Properties of the limiter on a failing store (SpecFailingStore)
\* ======================================================================
\* C17: if a store Get or Increment returns an error in a tier, Allow returns
\* that error without evaluating a later tier and without a further store
\* call, the middleware does not call the next handler, and the client
\* receives a 5xx response.
C17_StoreErrorFailsClosed ==
    (mw.handled /\ \E i \in 1..Len(mw.evals) : mw.evals[i].err # "") =>
        LET n == Len(mw.evals)
            last == mw.calls[Len(mw.calls)]
        IN /\ mw.evals[n].err # ""
           /\ \A i \in 1..(n - 1) : mw.evals[i].err = ""
           /\ mw.err = mw.evals[n].err
           /\ last[2] = mw.evals[n].key
           /\ ~mw.nextCalled
           /\ mw.status >= 500 /\ mw.status <= 599

\* the Increment of the per-IP tier failed after the route tier had admitted
\* the request
C17_Witness ==
    /\ mw.handled /\ mw.err = ErrStore
    /\ Len(mw.evals) = 2 /\ mw.evals[2].tier = "ip"
    /\ ~mw.evals[1].result.Limited
    /\ mw.calls[Len(mw.calls)] = <<"Increment", mw.evals[2].key>>
    /\ mw.status = 500 /\ ~mw.nextCalled

\* ======================================================================
\* Properties of the memory store and its sweeper (SpecStore)
\* ======================================================================
\* the step is a call of MemoryStore.Get
IsGet == call'.seq # call.seq

InChan(r) == r \in Range(requestChan) \cup Range(responseChan)

\* C11: while the service is running, every record accepted by LogRequest or
\* LogResponse (buffered in a channel) is eventually passed to
\* Repository.SaveLogs, no record is passed in more than one batch, and once
\* publishing has stopped both channels eventually become and stay empty,
\* given that every worker keeps being scheduled and its ticker keeps firing.
C11_AcceptedRecordsSavedOnce ==
    /\ [](\A r \in 1..MaxRecords : saves[r] <= 1)
    /\ \A r \in 1..MaxRecords : InChan(r) ~> (saves[r] = 1)
    /\ <>[](requestChan = <<>> /\ responseChan = <<>>)

\* all records were published, a full batch and a ticker flush have passed
\* them on, each once, by workers of both directions
C11_Witness ==
    /\ nrec = MaxRecords /\ senders = {}
    /\ \A r \in 1..MaxRecords : saves[r] = 1
    /\ requestChan = <<>> /\ responseChan = <<>>
    /\ \A w \in Workers : batch[w] = <<>>

\* C12: LogRequest and LogResponse never wait: no caller is left waiting in
\* the send when the direction's channel holds bufferSize records, and no
\* channel holds more than bufferSize records.
C12_PublishNeverWaits ==
    /\ senders = {}
    /\ Len(requestChan) <= BufferSize
    /\ Len(responseChan) <= BufferSize

\* C13: when Shutdown is called, every record buffered in a channel or held
\* in a worker's batch is passed to the repository before the workers exit (a
\* worker exits with an empty batch, the last worker of a direction leaves
\* the channel empty), and the repository is closed only after all workers
\* have exited.
C13_ShutdownFlushesAll ==
    /\ \A w \in exited : batch[w] = <<>>
    /\ \A dir \in {"request", "response"} :
          (\A i \in 1..WorkerCount : <<dir, i>> \in exited) => Chan(dir) = <<>>
    /\ sd = "repoClosed" => exited = Workers

\* ----------------------------------------------------------------------
\* C21: MemoryStore.Increment(key, reset_at) on a key without a record
\* creates {count = 1, reset_at} and returns 1; on a record that has not
\* expired (the clock is not after its reset time) it adds exactly 1 to the
\* count, keeps the stored reset time and returns the new count; on an
\* expired record it sets the count to 1, adopts the supplied reset time and
\* returns 1; no other key's record changes.
\* ----------------------------------------------------------------------
IsIncrement == call'.seq # call.seq /\ call'.op = "Increment"

C21_IncrementContract ==
    [][IsIncrement =>
        LET k == call'.key
            r == call'.resetTime
        IN /\ k \in DOMAIN data'
           /\ IF k \notin DOMAIN data
              THEN /\ data'[k] = [count |-> 1, resetTime |-> r]
                   /\ call'.count = 1
              ELSE IF now > data[k].resetTime
              THEN /\ data'[k] = [count |-> 1, resetTime |-> r]
                   /\ call'.count = 1
              ELSE /\ data'[k] = [count |-> data[k].count + 1,
                                  resetTime |-> data[k].resetTime]
                   /\ call'.count = data[k].count + 1
           /\ DOMAIN data' = DOMAIN data \cup {k}
           /\ \A o \in DOMAIN data \ {k} : data'[o] = data[o]]_vars

\* an Increment has found an expired record of another reset time, next to
\* the record of another key
C21_Witness ==
    /\ call.op = "Increment"
    /\ call.had
    /\ call.before.count = MaxCount
    /\ call.count = 1
    /\ call.resetTime # call.before.resetTime
    /\ call.key \in DOMAIN data
    /\ data[call.key] = [count |-> 1, resetTime |-> call.resetTime]
    /\ \E o \in DOMAIN data : o # call.key

\* ----------------------------------------------------------------------
\* C23: on a connection-level failure of the upstream call the handler
\* retries the call (retry_count is 3), making at most 1 + retry_count
\* attempts; a response with a non-2xx status is never retried.
\* ----------------------------------------------------------------------
C23_ConnectionFailureRetried ==
    Proxied =>
        /\ px.attempts <= 1 + RetryCount
        /\ (~px.rs.fail /\ px.up.fail) => px.attempts > 1
        /\ (~px.rs.fail /\ ~px.up.fail /\ (px.up.status < 200 \/ px.up.status > 299))
               => px.attempts = 1

\* ----------------------------------------------------------------------
\* C27: the response delivered to the client carries none of the internal
\* or debug headers received from the upstream and carries the security
\* headers of the header policy.
\* ----------------------------------------------------------------------
InternalHeaders ==
    {"Server", "X-Powered-By", "X-AspNet-Version", "X-Internal-Server", "X-Debug-Info"}

SecurityHeaders ==
    ("X-Content-Type-Options" :> "nosniff") @@ ("X-Frame-Options" :> "DENY")
    @@ ("X-XSS-Protection" :> "1; mode=block")
    @@ ("Strict-Transport-Security" :> "max-age=31536000; includeSubDomains")
    @@ ("Content-Security-Policy" :> "default-src 'self'")
    @@ ("Referrer-Policy" :> "strict-origin-when-cross-origin")

C27_ResponseHeadersSanitized ==
    (Proxied /\ px.err = "") =>
        /\ \A n \in InternalHeaders :
              CanonicalHeaderKey(n) \in DOMAIN px.up.headers
                  => ~Carries(px.headers, n, px.up.headers[CanonicalHeaderKey(n)])
        /\ \A n \in DOMAIN SecurityHeaders : Carries(px.headers, n, SecurityHeaders[n])

\* ----------------------------------------------------------------------
\* C28: each request the proxy handler completes, with a successful or an
\* error outcome, increments requests_total by exactly 1 and records exactly
\* one observation in request_duration_seconds and one in
\* response_size_bytes, labelled with the request's method, path and final
\* status.
\* ----------------------------------------------------------------------
Updates(name) == {i \in 1..Len(px.metrics) : px.metrics[i].name = name}

C28_CompletedRequestsCounted ==
    Proxied =>
        \A name \in {"requests_total", "request_duration_seconds", "response_size_bytes"} :
            /\ Cardinality(Updates(name)) = 1
            /\ \A i \in Updates(name) :
                  px.metrics[i] = Metric(name, px.req.method, px.req.path, px.status)

\* ----------------------------------------------------------------------
\* C26: a call of LogRequest or LogResponse made after Shutdown has been
\* called returns an error or drops the record: it never crashes the
\* process.
\* ----------------------------------------------------------------------
C26_PublishAfterShutdownHarmless ==
    [][ (nrec' # nrec /\ sd # "running") => ~crashed' ]_vars

\* ----------------------------------------------------------------------
\* C29: with rate limiting enabled, a tier that is disabled or has no
\* configuration is skipped: a disabled per-IP tier, an absent matching
\* route and an unconfigured global tier (requests = 0, burst = 0) each make
\* no store call and never limit a request.
\* ----------------------------------------------------------------------
SkippedTiers ==
    (IF cfg.PerIP.Enabled THEN {} ELSE {"ip"})
    \cup (IF Matching(mw.req) = {} THEN {"route"} ELSE {})
    \cup (IF cfg.Global.Requests = 0 /\ cfg.Global.Burst = 0 THEN {"global"} ELSE {})

C29_UnconfiguredTiersSkipped ==
    (mw.handled /\ cfg.Enabled) =>
        /\ \A i \in 1..Len(mw.evals) : mw.evals[i].tier \notin SkippedTiers
        /\ \A j \in 1..Len(mw.calls) :
              mw.calls[j][2][Len(mw.calls[j][2])] \notin SkippedTiers

\* ----------------------------------------------------------------------
\* C25: the active_requests gauge always equals the number of invocations
\* of Handle for non-metrics paths that have started and not yet returned:
\* incremented once on entry, decremented once on every exit path, never
\* negative, and 0 when no request is in flight.
\* ----------------------------------------------------------------------
C25_GaugeCountsInflight ==
    /\ activeRequests = Cardinality(inflight)
    /\ activeRequests >= 0
    /\ inflight = {} => activeRequests = 0

\* every request of the run has been in flight and has returned, the last
\* one with an error
C25_Witness ==
    /\ traces = MaxTrace
    /\ inflight = {}
    /\ activeRequests = 0
    /\ Proxied /\ px.err # ""

\* ----------------------------------------------------------------------
\* C22: telemetry never affects the hot path: when Repository.SaveLog fails
\* the error is counted in errors_total and swallowed, and no client
\* response depends on the outcome of log persistence.
\* ----------------------------------------------------------------------
IsSaveLog == logq' # logq /\ logq' \subseteq logq

C22_TelemetryOffHotPath ==
    [][ IsSaveLog =>
            /\ px' = px
            /\ errorsTotal' - errorsTotal = saveErrors' - saveErrors ]_vars

\* ----------------------------------------------------------------------
\* C24: on SIGINT / SIGTERM the server stops accepting connections and the
\* requests in flight finish, then the log sink is flushed, and only then
\* are the repository and the store closed; no Log record is handed to the
\* repository after it has been closed.
\* ----------------------------------------------------------------------
C24_TeardownInOrder ==
    [][ /\ (teardown' = "serverStopped" /\ teardown # "serverStopped") => inflight = {}
        /\ (teardown' = "repoClosed" /\ teardown # "repoClosed") => logq = {}
        /\ (closed' /\ ~closed) => teardown \in {"repoClosed"}
        /\ IsSaveLog => teardown \notin {"repoClosed", "exited"} ]_vars

\* ----------------------------------------------------------------------
\* C30: when several Allow calls for the same tier key run side by side,
\* the requests admitted in one window may exceed limit + burst, but by no
\* more than burst extra requests, for any number of concurrent callers.
\* ----------------------------------------------------------------------
C30_ContentionSlackAtMostBurst ==
    \A k \in DOMAIN admitted :
        admitted[k].n <= admitted[k].cap + cfg.Global.Burst

\* ---------------------------------------------------------------------
\* Rejections of one tier check

HasCall(op, key) == \E i \in 1..Len(mw.calls) : mw.calls[i] = <<op, key>>

\* The count a rejecting check compared: the stored count of the window it
\* reports, 0 when it opened a fresh window.
StoredCount(e) ==
    IF e.key \in DOMAIN data /\ data[e.key].resetTime = e.result.ResetTime
    THEN data[e.key].count ELSE 0

LimitedEvals == {i \in 1..Len(mw.evals) : mw.evals[i].err = "" /\ mw.evals[i].result.Limited}

\* C31 (limited exactly at the ceiling, nothing incremented, remaining 0):
\* a tier check reports limited exactly when the count it read, 0 for an
\* expired window, is at least limit + burst; the rejecting check makes no
\* Increment call, returns remaining 0 and the header X-RateLimit-Remaining
\* "0".
C31_LimitedAtCeiling ==
    mw.handled =>
        \A i \in 1..Len(mw.evals) :
            LET e == mw.evals[i]
            IN e.err = "" =>
                /\ e.result.Limited <=> e.count >= e.limit + e.burst
                /\ e.result.Limited =>
                    /\ e.count = StoredCount(e)
                    /\ HasCall("Get", e.key)
                    /\ ~HasCall("Increment", e.key)
                    /\ e.result.Remaining = 0
                    /\ e.result.LimitHeaders["X-RateLimit-Remaining"] = "0"

\* C31 (retry-after range): the retry_after of a rejecting tier check lies
\* between 0 and the tier's window.
C31_RetryAfterWithinWindow ==
    mw.handled =>
        \A i \in LimitedEvals :
            /\ mw.evals[i].result.RetryAfter >= 0
            /\ mw.evals[i].result.RetryAfter <= mw.evals[i].window

\* ---------------------------------------------------------------------
\* Admissions of one tier check

NumCalls(op, key) == Cardinality({i \in 1..Len(mw.calls) : mw.calls[i] = <<op, key>>})

AdmittedEvals == {i \in 1..Len(mw.evals) : mw.evals[i].err = "" /\ ~mw.evals[i].result.Limited}

\* C32 (an admission counts once): an admitting tier check calls
\* store.Increment exactly once on its key, which leaves the counter at the
\* count it compared plus 1, or at 1 when Increment found the window
\* expired (never while the reported reset time is still ahead); it returns remaining = max(0, limit + burst - new count) and the
\* headers X-RateLimit-Limit, X-RateLimit-Remaining and X-RateLimit-Reset,
\* without Retry-After.
C32_AdmissionCountsOnce ==
    mw.handled =>
        \A i \in AdmittedEvals :
            LET e == mw.evals[i]
                h == e.result.LimitHeaders
            IN /\ NumCalls("Increment", e.key) = 1
               /\ e.key \in DOMAIN data
               /\ data[e.key].count \in {e.count + 1, 1}
               /\ now <= e.result.ResetTime => data[e.key].count = e.count + 1
               /\ e.result.Remaining = Max(0, e.limit + e.burst - data[e.key].count)
               /\ DOMAIN h = {HeaderRateLimit, HeaderRateRemaining, HeaderRateReset}
               /\ h[HeaderRateLimit] = ToString(e.limit)
               /\ h[HeaderRateRemaining] = ToString(e.result.Remaining)
               /\ h[HeaderRateReset] = ToString(Unix(e.result.ResetTime))

C32_Witness ==
    /\ mw.handled
    /\ \E i \in AdmittedEvals :
        /\ mw.evals[i].count >= 1
        /\ data[mw.evals[i].key].count = mw.evals[i].count + 1
        /\ mw.evals[i].result.Remaining >= 1

\* ----------------------------------------------------------------------
\* Route selection on any one route and request: findRouteLimit over a
\* configuration that holds the single route
\* ----------------------------------------------------------------------
MaxSegs == 2     \* segments of a pattern or a path

Segments == {"api", "users", "*", "v*"}

Paths == UNION {[1..n -> Segments] : n \in 1..MaxSegs}

RouteMethods == {"*", "GET", "POST"}

RequestMethods == {"GET", "POST"}

\* a route and a request, findRouteLimit still to be called
InitRoute ==
    /\ cfg = ShippedConfig /\ now = 0 /\ data = <<>> /\ mw = NoExchange
    /\ admitted = <<>> /\ px = NoProxied /\ logq = {} /\ traces = 0
    /\ \E routeMethod \in RouteMethods, pattern \in Paths,
          method \in RequestMethods, path \in Paths :
          call = [op |-> "request", routeMethod |-> routeMethod, pattern |-> pattern,
                  method |-> method, path |-> path, set |-> FALSE]
    /\ pending = <<>> /\ lastSweep = 0 /\ born = <<>> /\ closed = FALSE
    /\ InitSink /\ InitLife /\ callers = <<>>

FindRoute ==
    /\ call.op = "request"
    /\ \E st \in {routeLoop(<<[Path |-> call.pattern, Method |-> call.routeMethod,
                              Requests |-> 1, Window |-> 1, Burst |-> 0,
                              Priority |-> 0]>>,
                            1, call.method, call.path,
                            [set |-> FALSE, bestPriority |-> 0, bestPattern |-> <<>>])} :
          call' = [call EXCEPT !.op = "findRouteLimit", !.set = st.set]
    /\ UNCHANGED <<coreVars, pending, lastSweep, born, closed, sinkVars, lifeVars, callers>>

NextRoute == FindRoute

SpecRoute == InitRoute /\ [][NextRoute]_vars

\* the match of the route's pattern in words: without "*" the identical
\* path only, with "*" the paths of as many segments whose segments equal
\* the pattern's wherever the pattern's segment is not "*"
SegmentwiseMatch(pattern, path) ==
    IF \A i \in 1..Len(pattern) : pattern[i] \notin StarSegments
    THEN pattern = path
    ELSE /\ Len(pattern) = Len(path)
         /\ \A i \in 1..Len(pattern) : pattern[i] # "*" => pattern[i] = path[i]

\* C33 (candidate routes): a route passes the filters of findRouteLimit
\* exactly when its method is "*" or the request's method and its pattern
\* matches the request's path segment by segment.
C33_CandidateRoutes ==
    call.op = "findRouteLimit" =>
        (call.set <=> /\ call.routeMethod \in {"*", call.method}
                      /\ SegmentwiseMatch(call.pattern, call.path))

C33_Witness ==
    /\ call.op = "findRouteLimit"
    /\ call.set
    /\ call.routeMethod = call.method
    /\ call.pattern # call.path
    /\ call.pattern[1] = "*"
    /\ Len(call.pattern) = MaxSegs

\* ---------------------------------------------------------------------
\* Batches of the log workers

\* C34 (flush discipline): no worker's batch ever holds more than the batch
\* size; a batch handed to the repository is never empty and never larger
\* than the batch size; right after a worker's flush its batch is empty.
C34_FlushDiscipline ==
    [][ /\ \A w \in Workers : Len(batch'[w]) <= BatchSize
        /\ call' # call =>
            /\ call'.op = "SaveLogs"
            /\ call'.batch # <<>>
            /\ Len(call'.batch) <= BatchSize
            /\ batch'[call'.worker] = <<>> ]_vars

C34_Witness ==
    /\ call.op = "SaveLogs"
    /\ Len(call.batch) = BatchSize
    /\ batch[call.worker] = <<>>
    /\ \E w \in Workers : w # call.worker /\ batch[w] # <<>>

\* ----------------------------------------------------------------------
\* MemoryStore.Increment statement by statement under the store's lock:
\* several callers increment the shared key while Get, Reset of another
\* key, the sweeper and the clock run.  pending holds the caller that has
\* s.mu locked.
\* ----------------------------------------------------------------------
NumIncrements == 3     \* Increment calls on the shared key in one run

OtherKey == "b"

\* a store that holds the shared key with some count and the other key
InitLocked ==
    /\ cfg = ShippedConfig /\ now = 0 /\ mw = NoExchange
    /\ admitted = <<>> /\ px = NoProxied /\ logq = {} /\ traces = 0
    /\ \E c \in 1..MaxCount, resetTime \in {1, MaxTime} :
          data = (SharedKey :> [count |-> c, resetTime |-> resetTime])
                 @@ (OtherKey :> [count |-> 1, resetTime |-> MaxTime])
    /\ born = (SharedKey :> 0) @@ (OtherKey :> 0)
    /\ call = NoCall /\ pending = <<>> /\ lastSweep = 0 /\ closed = FALSE
    /\ InitSink /\ InitLife /\ callers = <<>>

\* a caller calls Increment on the shared key and waits for s.mu
IncCall ==
    /\ Len(callers) < NumIncrements
    /\ callers' = Append(callers, [pc |-> "waiting", exists |-> FALSE, start |-> 0,
                                   before |-> 0, ret |-> 0])
    /\ UNCHANGED <<coreVars, storeVars, sinkVars, lifeVars>>

\* a lock that lets a caller in while another holds it
muLock_none(i) == pending' = <<i>>

\* `s.mu.Lock()`: the caller gets the lock when nobody holds it
muLock(i) == pending = <<>> /\ pending' = <<i>>

IncLock(i) ==
    /\ i \in 1..Len(callers)
    /\ callers[i].pc = "waiting"
    /\ muLock(i)
    /\ callers' = [callers EXCEPT ![i].pc = "locked"]
    /\ UNCHANGED <<coreVars, call, lastSweep, born, closed, sinkVars, lifeVars>>

\* `now := time.Now(); w, exists := s.data[key]` and the test
\* `!exists || now.After(w.resetTime)`; exists: the caller found an
\* unexpired window, of the count before and begun at start
IncRead(i) ==
    /\ i \in 1..Len(callers)
    /\ callers[i].pc = "locked"
    /\ callers' = [callers EXCEPT ![i] =
          IF SharedKey \in DOMAIN data /\ ~(now > data[SharedKey].resetTime)
          THEN [pc |-> "read", exists |-> TRUE, start |-> born[SharedKey],
                before |-> data[SharedKey].count, ret |-> 0]
          ELSE [pc |-> "read", exists |-> FALSE, start |-> 0, before |-> 0, ret |-> 0]]
    /\ UNCHANGED <<coreVars, storeVars, sinkVars, lifeVars>>

\* the new window, or `w.count++`, then the return with the deferred
\* `s.mu.Unlock()`
IncWrite(i, resetTime) ==
    /\ i \in 1..Len(callers)
    /\ callers[i].pc = "read"
    /\ LET count == IF callers[i].exists THEN callers[i].before + 1 ELSE 1
           reset == IF callers[i].exists /\ SharedKey \in DOMAIN data
                    THEN data[SharedKey].resetTime ELSE resetTime
       IN /\ data' = (SharedKey :> [count |-> count, resetTime |-> reset]) @@ data
          /\ callers' = [callers EXCEPT ![i].pc = "done", ![i].ret = count]
    /\ born' = IF callers[i].exists THEN born ELSE (SharedKey :> now) @@ born
    /\ pending' = IF pending = <<i>> THEN <<>> ELSE pending
    /\ UNCHANGED <<cfg, now, mw, admitted, px, logq, traces>>
    /\ UNCHANGED <<call, lastSweep, closed, sinkVars, lifeVars>>

\* MemoryStore.Get under `s.mu.RLock()`, which waits while a caller of
\* Increment holds the lock
LockedGet(key) ==
    /\ pending = <<>>
    /\ \E got \in {MemGet(data, key, now)} :
          call' = [NoCall EXCEPT !.op = "Get", !.key = key, !.count = got.count]
    /\ UNCHANGED <<coreVars, pending, lastSweep, born, closed, sinkVars, lifeVars, callers>>

NextLocked ==
    \/ IncCall
    \/ \E i \in 1..NumIncrements : IncLock(i)
    \/ \E i \in 1..NumIncrements : IncRead(i)
    \/ \E i \in 1..NumIncrements, resetTime \in ResetTimes(now) : IncWrite(i, resetTime)
    \/ \E key \in StoreKeys : LockedGet(key)
    \/ pending = <<>> /\ StoreReset(OtherKey)
    \/ pending = <<>> /\ cleanup
    \/ StoreTick

SpecLocked == InitLocked /\ [][NextLocked]_vars

\* the finished callers that incremented the window begun at start
SameWindow(start) ==
    {j \in 1..Len(callers) :
        callers[j].pc = "done" /\ callers[j].exists /\ callers[j].start = start}

MinOf(S) == CHOOSE x \in S : \A y \in S : x <= y

\* C35 (increments are serialized): the k finished Increments of one
\* unexpired window of the shared key that stood at count c returned exactly
\* c+1 .. c+k, and while that window is the key's window its count is c+k,
\* whatever Get, Reset of the other key, sweeps and clock ticks came between.
C35_IncrementsSerialized ==
    \A i \in 1..Len(callers) :
        (callers[i].pc = "done" /\ callers[i].exists) =>
            LET G == SameWindow(callers[i].start)
                c == MinOf({callers[j].before : j \in G})
                k == Cardinality(G)
            IN /\ {callers[j].ret : j \in G} = (c + 1)..(c + k)
               /\ (SharedKey \in DOMAIN data /\ born[SharedKey] = callers[i].start)
                    => data[SharedKey].count = c + k

C35_Witness ==
    /\ Cardinality(SameWindow(0)) = NumIncrements
    /\ \E i, j \in SameWindow(0) : i < j /\ callers[i].ret > callers[j].ret
    /\ OtherKey \notin DOMAIN data
    /\ call.op = "Get"
    /\ now > 0

\* ----------------------------------------------------------------------
\* The memory store used after Close: `s.data = nil`, the ticker stopped.
\* Reading a nil map and deleting from it do nothing; assigning to an entry
\* of a nil map panics.  The sweeper stays in `for range s.clean.C`: Stop
\* does not close the ticker's channel, so the loop receives no further tick
\* and never ends.
\* ----------------------------------------------------------------------
\* MemoryStore.Increment on the closed store, called by the checkLimit in
\* flight: `s.data[key] = &window{...}` on the nil map
IncrementClosed ==
    /\ pending # <<>>
    /\ closed
    /\ crashed' = TRUE
    /\ pending' = <<>>
    /\ UNCHANGED <<requestChan, responseChan, batch, saves, senders, nrec, sd, exited>>
    /\ UNCHANGED <<coreVars, call, lastSweep, born, closed, lifeVars, callers>>

\* MemoryStore.Reset on the closed store: delete on the nil map
ResetClosed(key) ==
    /\ pending = <<>>
    /\ closed
    /\ call' = [NoCall EXCEPT !.op = "Reset", !.key = key, !.seq = 1 - call.seq]
    /\ UNCHANGED <<coreVars, pending, lastSweep, born, closed, sinkVars, lifeVars, callers>>

\* the calls and the sweeper, as long as the process has not panicked
NextClosing ==
    \/ \E key \in StoreKeys, window \in StoreWindows, adv \in BOOLEAN, inc \in BOOLEAN :
          ~crashed /\ StoreGet(key, window, adv, inc)
    \/ ~crashed /\ StoreIncrement
    \/ ~crashed /\ IncrementClosed
    \/ \E key \in StoreKeys : ~crashed /\ ResetClosed(key)
    \/ ~crashed /\ cleanup
    \/ ~crashed /\ StoreClose
    \/ ~crashed /\ StoreTick

SpecClosing == InitOpenStore /\ [][NextClosing]_vars

\* C36 (calls after Close): on a closed store Get, Increment and Reset
\* complete without a fault.
C36_CallsAfterCloseComplete == closed => ~crashed

\* ---------------------------------------------------------------------
\* Counters after a rejection by a later tier

\* the keys of the tiers checked before the last one of the exchange m
EarlierKeys(m) == {m.evals[j].key : j \in 1..(Len(m.evals) - 1)}

\* C37 (no rollback): when Allow rejects at a tier after the first, the
\* counter of every tier checked before it has gone up by exactly 1 (to 1
\* for a key without an unexpired window) and stays so; every other counter,
\* those of the rejecting tier and of the tiers after it included, is
\* unchanged.
C37_EarlierTiersStayCounted ==
    [][ (data' # data /\ mw'.err = "" /\ mw'.result.Limited) =>
          /\ \A j \in 1..(Len(mw'.evals) - 1) :
                LET e == mw'.evals[j]
                IN /\ ~e.result.Limited
                   /\ e.key \in DOMAIN data'
                   /\ data'[e.key].count \in {EntryOf(data, e.key).count + 1, 1}
                   /\ (e.key \in DOMAIN data /\ now' <= data[e.key].resetTime)
                        => data'[e.key].count = data[e.key].count + 1
                   /\ (e.key \notin DOMAIN data \/ now > EntryOf(data, e.key).resetTime)
                        => data'[e.key].count = 1
          /\ \A k \in (DOMAIN data \cup DOMAIN data') \ EarlierKeys(mw') :
                k \in DOMAIN data /\ k \in DOMAIN data' /\ data'[k] = data[k] ]_vars

C37_Witness ==
    /\ mw.handled /\ mw.err = "" /\ mw.result.Limited
    /\ Len(mw.evals) = 3
    /\ data[mw.evals[1].key].count = mw.evals[1].count + 1
    /\ mw.evals[1].count >= 1
    /\ mw.evals[3].key \in DOMAIN data

\* ----------------------------------------------------------------------
\* The text of the store keys: Key.String joins the parts with ":" and
\* withSuffix appends ":" and the tier's suffix.  Two requests have their
\* keys built for the three tiers.
\* ----------------------------------------------------------------------
RECURSIVE Join(_, _)
\* strings.Join(parts, sep)
Join(parts, sep) ==
    IF parts = <<>> THEN ""
    ELSE IF Len(parts) = 1 THEN parts[1]
    ELSE parts[1] \o sep \o Join(Tail(parts), sep)

\* Key.String on the text of the parts (Group, ClientID and UserID are
\* never set by buildKey)
KeyText(k) == Join(<<k.Method, k.Path>> \o (IF k.IP # "" THEN <<k.IP>> ELSE <<>>), ":")

\* Key.withSuffix: fmt.Sprintf("%s:%s", k.String(), suffix)
withSuffixText(k, suffix) == KeyText(k) \o ":" \o suffix

TierSuffixes == {"route", "ip", "global"}

\* request paths and client addresses as fiber reports them; a path may
\* hold ":" and an IPv6 address does
KeyPaths == {"/a", "/a:2001", "/b"}

KeyIPs == {"10.0.0.1", "2001:db8::1", "db8::1"}

KeyRequests == [method : RequestMethods, path : KeyPaths, ip : KeyIPs]

\* two requests arrive
InitKeys ==
    /\ cfg = ShippedConfig /\ now = 0 /\ data = <<>> /\ mw = NoExchange
    /\ admitted = <<>> /\ px = NoProxied /\ logq = {} /\ traces = 0
    /\ \E a \in KeyRequests, b \in KeyRequests :
          call = [op |-> "requests", a |-> a, b |-> b, keysA |-> <<>>, keysB |-> <<>>]
    /\ pending = <<>> /\ lastSweep = 0 /\ born = <<>> /\ closed = FALSE
    /\ InitSink /\ InitLife /\ callers = <<>>

\* Allow builds the key of each request and the store key of every tier
BuildKeys ==
    /\ call.op = "requests"
    /\ call' = [call EXCEPT
                  !.op = "withSuffix",
                  !.keysA = [t \in TierSuffixes |-> withSuffixText(buildKey(call.a), t)],
                  !.keysB = [t \in TierSuffixes |-> withSuffixText(buildKey(call.b), t)]]
    /\ UNCHANGED <<coreVars, pending, lastSweep, born, closed, sinkVars, lifeVars, callers>>

NextKeys == BuildKeys

SpecKeys == InitKeys /\ [][NextKeys]_vars

C38_TiersNeverCoincide ==
    call.op = "withSuffix" =>
        \A t, u \in TierSuffixes :
            t # u => /\ call.keysA[t] # call.keysA[u]
                     /\ call.keysA[t] # call.keysB[u]

\* ---------------------------------------------------------------------
\* Workers during Shutdown

\* C39 (no nil record during shutdown): no worker holds a nil record, the
\* value a receive on a closed channel yields, in its batch.
C39_NoNilRecordTaken == \A w \in Workers : 0 \notin Range(batch[w])

\* ======================================================================
\* The Handle of internal/proxy/handler.go, which logs on goroutines: the
\* handler declares `var reqLog *model.RequestLog`, starts a goroutine that
\* builds the record and publishes it, proxies the request, and then starts
\* a second goroutine that passes reqLog to handleResponse.  Nothing orders
\* the second goroutine after the first.  callers holds one record per
\* Handle call: reqLog is the shared variable ("nil" or "set"), id the ID
\* field of the record it points to (0 for ""), g1 and g2 the positions of
\* the goroutines, arg the pointer handleResponse was passed, requestID the
\* RequestID of the response record.
\* ======================================================================
\* Handle up to `go func()` of the request logging; the ID that LogRequest
\* will draw is the number of the call
ConcurrentHandle ==
    /\ ~crashed
    /\ Len(callers) < NumCallers
    /\ callers' = Append(callers,
          [pc |-> "proxying", reqLog |-> "nil", id |-> 0, g1 |-> "started",
           g2 |-> "none", arg |-> "nil", requestID |-> 0])
    /\ UNCHANGED <<coreVars, storeVars, sinkVars, lifeVars>>

\* first goroutine: `reqLog = h.buildRequestLog(c, traceID)`
GoBuildRequestLog(i) ==
    /\ ~crashed
    /\ i \in 1..Len(callers)
    /\ callers[i].g1 = "started"
    /\ callers' = [callers EXCEPT ![i].reqLog = "set", ![i].g1 = "built"]
    /\ UNCHANGED <<coreVars, storeVars, sinkVars, lifeVars>>

\* first goroutine: `h.logSvc.LogRequest(reqLog)` assigns the record's ID
GoLogRequest(i) ==
    /\ ~crashed
    /\ i \in 1..Len(callers)
    /\ callers[i].g1 = "built"
    /\ callers' = [callers EXCEPT ![i].id = i, ![i].g1 = "done"]
    /\ UNCHANGED <<coreVars, storeVars, sinkVars, lifeVars>>

\* proxyRequest returns and the handler starts the response goroutine
ProxyRequestReturns(i) ==
    /\ ~crashed
    /\ i \in 1..Len(callers)
    /\ callers[i].pc = "proxying"
    /\ callers' = [callers EXCEPT ![i].pc = "waiting", ![i].g2 = "started"]
    /\ UNCHANGED <<coreVars, storeVars, sinkVars, lifeVars>>

\* second goroutine: the call of handleResponse reads the variable reqLog
GoResponseArgs(i) ==
    /\ ~crashed
    /\ i \in 1..Len(callers)
    /\ callers[i].g2 = "started"
    /\ callers' = [callers EXCEPT ![i].arg = callers[i].reqLog, ![i].g2 = "called"]
    /\ UNCHANGED <<coreVars, storeVars, sinkVars, lifeVars>>

\* handleResponse: `RequestID: reqLog.ID`; a nil reqLog panics
handleResponse(i) ==
    /\ ~crashed
    /\ i \in 1..Len(callers)
    /\ callers[i].g2 = "called"
    /\ IF callers[i].arg = "nil"
       THEN crashed' = TRUE /\ UNCHANGED callers
       ELSE /\ callers' = [callers EXCEPT ![i].requestID = callers[i].id, ![i].g2 = "done"]
            /\ UNCHANGED crashed
    /\ UNCHANGED <<requestChan, responseChan, batch, saves, senders, nrec, sd, exited>>
    /\ UNCHANGED <<coreVars, storeVars, lifeVars>>

\* `wg.Wait()` is over, errChan is closed and Handle returns
ConcurrentHandleReturns(i) ==
    /\ ~crashed
    /\ i \in 1..Len(callers)
    /\ callers[i].pc = "waiting" /\ callers[i].g1 = "done" /\ callers[i].g2 = "done"
    /\ callers' = [callers EXCEPT ![i].pc = "returned"]
    /\ UNCHANGED <<coreVars, storeVars, sinkVars, lifeVars>>

NextConcurrentHandle ==
    \/ ConcurrentHandle
    \/ \E i \in 1..NumCallers : GoBuildRequestLog(i)
    \/ \E i \in 1..NumCallers : GoLogRequest(i)
    \/ \E i \in 1..NumCallers : ProxyRequestReturns(i)
    \/ \E i \in 1..NumCallers : GoResponseArgs(i)
    \/ \E i \in 1..NumCallers : handleResponse(i)
    \/ \E i \in 1..NumCallers : ConcurrentHandleReturns(i)

SpecConcurrentHandle == InitOpenStore /\ [][NextConcurrentHandle]_vars

\* C40 (response record after request record): handleResponse is never
\* passed an unset request record, and the RequestID of the response record
\* it builds is the ID LogRequest gave the request record.
C40_ResponseSeesRequestRecord ==
    \A i \in 1..Len(callers) :
        /\ callers[i].g2 \in {"called", "done"} => callers[i].arg = "set"
        /\ callers[i].g2 = "done" => callers[i].requestID = i
====
